---- MODULE Spec2Model ----
(***************************************************************************)
(* A model of deej's session directory (sessionMap), routing engine        *)
(* (handleSliderMoveEvent) and serial frame decoder (SerialIO.handleLine), *)
(* together with the event-driven audio backend that feeds the directory.  *)
(*                                                                         *)
(* Strings are sequences of one-character strings so that lower-casing,    *)
(* prefix tests, the device-name pattern and the serial line grammar are   *)
(* computed character by character as the Go code computes them.           *)
(* Volumes and slider percent values are integers in hundredths; the       *)
(* clock is the time since the last refresh, which is all the code asks of *)
(* it.                                                                     *)
(***************************************************************************)
EXTENDS Integers, Sequences, FiniteSets, TLC

(***************************************************************************)
(* Bounds of the model.                                                    *)
(***************************************************************************)
\* size of the pool of Session handles the backend can ever create
NumSessions == 2
\* capacity of the backend's session event channel (sessionEventChanSize,
\* 100 in the source) scaled down so that the channel-full path is reached
MaxEventChan == 2
\* number of lines the serial reader hands to handleLine
\* Session handles the WCA session finder creates in a run
MaxHandles == 3
\* SessionEvents the WCA session finder emits in a run
MaxEmitted == 4
MaxLines == 3
\* calls of SerialIO.Start in a run, and connections serial.Open makes
MaxStarts == 3
MaxConnects == 3
\* server events of PulseAudio in a run, each refreshing the masters
MaxRefreshes == 2

(***************************************************************************)
(* Program constants.                                                      *)
(***************************************************************************)
masterSessionName == <<"m","a","s","t","e","r">>
systemSessionName == <<"s","y","s","t","e","m">>
inputSessionName == <<"m","i","c">>
specialTargetTransformPrefix == <<"d","e","e","j",".">>
specialTargetCurrentWindow == <<"c","u","r","r","e","n","t">>
specialTargetCurrentFullscreenWindow ==
    <<"c","u","r","r","e","n","t",".","f","u","l","l","s","c","r","e","e","n">>
specialTargetAllUnmapped == <<"u","n","m","a","p","p","e","d">>
\* time.Second * 2, in seconds
minTimeBetweenSessionRefreshes == 2
\* largest raw slider reading accepted for the first value of a line
MaxRaw == 1023
\* the sentinel, were its sign left out
ResetSentinelInRange == MaxRaw
\* sentinel stored for every slider when the slider count changes
ResetSentinel == 0 - MaxRaw

(***************************************************************************)
(* Strings                                                                 *)
(***************************************************************************)
UpperChars == <<"A","B","C","D","E","F","G","H","I","J","K","L","M",
                "N","O","P","Q","R","S","T","U","V","W","X","Y","Z">>
LowerChars == <<"a","b","c","d","e","f","g","h","i","j","k","l","m",
                "n","o","p","q","r","s","t","u","v","w","x","y","z">>

ToLowerChar(c) ==
    IF \E i \in 1..26 : UpperChars[i] = c
    THEN LowerChars[CHOOSE i \in 1..26 : UpperChars[i] = c]
    ELSE c

\* strings.ToLower
ToLower(str) == [i \in 1..Len(str) |-> ToLowerChar(str[i])]

\* strings.HasPrefix
HasPrefix(str, prefix) ==
    /\ Len(str) >= Len(prefix)
    /\ SubSeq(str, 1, Len(prefix)) = prefix

\* strings.TrimPrefix
TrimPrefix(str, prefix) ==
    IF HasPrefix(str, prefix) THEN SubSeq(str, Len(prefix) + 1, Len(str)) ELSE str

\* strings.TrimSuffix
TrimSuffix(str, suffix) ==
    IF /\ Len(str) >= Len(suffix)
       /\ SubSeq(str, Len(str) - Len(suffix) + 1, Len(str)) = suffix
    THEN SubSeq(str, 1, Len(str) - Len(suffix))
    ELSE str

\* regexp `^.+ \(.+\)$`: friendly device names such as "Headphones (Realtek Audio)"
deviceSessionKeyPattern(str) ==
    \E i \in 2..Len(str) :
        /\ str[i] = " "
        /\ i + 3 <= Len(str)
        /\ str[i + 1] = "("
        /\ str[Len(str)] = ")"

\* funk.UniqString: first occurrences, in order
RECURSIVE UniqString(_)
UniqString(strs) ==
    IF strs = <<>> THEN <<>>
    ELSE LET init == UniqString(SubSeq(strs, 1, Len(strs) - 1))
             last == strs[Len(strs)]
         IN IF \E i \in 1..Len(init) : init[i] = last THEN init ELSE Append(init, last)

(***************************************************************************)
(* Sessions and keys                                                       *)
(***************************************************************************)
FirefoxExe == <<"f","i","r","e","f","o","x",".","e","x","e">>
SpeakersDevice == <<"s","p","k"," ","(","h","d",")">>

Sessions == 1..NumSessions
\* the nil Session
NoSession == 0

\* the keys of the Session handles, in the order of the handles: a process
\* and the master output, two sessions of one process, a process and a device
KeyTables == { <<FirefoxExe, masterSessionName>>,
               <<FirefoxExe, FirefoxExe>>,
               <<FirefoxExe, SpeakersDevice>> }

\* the keys of the handles, from a table repeated as far as the handles go
KeysFrom(table) == [s \in Sessions |-> table[((s - 1) % Len(table)) + 1]]

VARIABLE keyOf            \* per Session handle: what its Key() returns

Key(s) == keyOf[s]

\* volume scalars, in hundredths
Volumes == {0, 50, 100}
\* the values the slider move events of the directory model carry
EventValues == {100}


(***************************************************************************)
(* Configuration: the slider mapping, slider index -> ordered targets      *)
(***************************************************************************)
DeejUnmapped == specialTargetTransformPrefix \o specialTargetAllUnmapped
DeejCurrent == specialTargetTransformPrefix \o specialTargetCurrentWindow
DeejCurrentFullscreen ==
    specialTargetTransformPrefix \o specialTargetCurrentFullscreenWindow
FirefoxMixedCase == <<"F","i","r","e","f","o","x",".","E","X","E">>

\* slider 0 -> master, slider 1 -> deej.unmapped
ConfigMaster == (0 :> <<masterSessionName>>) @@ (1 :> <<DeejUnmapped>>)
\* slider 0 -> Firefox.EXE, slider 1 -> deej.unmapped
ConfigFirefox == (0 :> <<FirefoxMixedCase>>) @@ (1 :> <<DeejUnmapped>>)
\* the end-to-end scenario: slider 0 -> firefox.exe, slider 3 -> master
ConfigEndToEnd == (0 :> <<FirefoxExe>>) @@ (3 :> <<masterSessionName>>)

Configs == {ConfigMaster, ConfigFirefox}
\* slider 0 -> firefox.exe and Firefox.EXE: one key, twice
ConfigRepeated == (0 :> <<FirefoxExe, FirefoxMixedCase>>) @@ (1 :> <<DeejUnmapped>>)

\* special targets as a user may write them: the configuration keeps the case
DeejUnmappedMixedCase == <<"D","e","e","j",".","U","n","m","a","p","p","e","d">>
DeejCurrentMixedCase == <<"D","e","e","j",".","C","u","r","r","e","n","t">>
\* the targets a slider of the configuration may have, in any letter case
TargetStrings == {FirefoxExe, FirefoxMixedCase, masterSessionName, DeejUnmapped,
                  DeejUnmappedMixedCase, DeejCurrentMixedCase}
\* slider 0 -> one of the targets, slider 1 -> deej.unmapped
TargetConfigs == { (0 :> <<t>>) @@ (1 :> <<DeejUnmapped>>) : t \in TargetStrings }

\* slider 0 -> deej.current, slider 1 -> deej.current.fullscreen
ConfigWindow == (0 :> <<DeejCurrent>>) @@ (1 :> <<DeejCurrentFullscreen>>)

\* slider indexes a move event can carry (slider 2 is never configured)
SliderIDs == 0..2

\* results of util.GetCurrentWindowProcessNames: an error, or process names
WindowResults ==
    { [err |-> TRUE, names |-> <<>>],
      [err |-> FALSE, names |-> <<>>],
      [err |-> FALSE, names |-> <<FirefoxMixedCase, FirefoxExe>>] }

\* the foreground window: whether isWindowFullscreen holds for it, the
\* executables of its owner and of the child windows of other processes
\* (none for the system PID 0), and whether ps.FindProcess finds the owner
NoWindow == [fullscreen |-> FALSE, names |-> <<>>, found |-> TRUE]
Foregrounds ==
    {NoWindow} \cup
    { [fullscreen |-> f, names |-> n, found |-> b] :
         f \in BOOLEAN, n \in { <<FirefoxMixedCase>>, <<FirefoxMixedCase, FirefoxExe>> },
         b \in BOOLEAN }

\* util.getCurrentWindowProcessNames: what it returns (names, err) and what
\* it leaves in lastGetCurrentWindowResult; lastGetCurrentWindowCall is set
\* by every call that is outside the cooldown
getCurrentWindowProcessNames(checkFullscreen, fg, last, cooling) ==
    IF cooling
    THEN [names |-> last, err |-> FALSE, last |-> last]
    ELSE IF checkFullscreen /\ ~fg.fullscreen
    THEN [names |-> <<>>, err |-> FALSE, last |-> last]
    ELSE IF fg.names = <<>>
    THEN [names |-> <<>>, err |-> FALSE, last |-> last]
    ELSE IF ~fg.found
    THEN [names |-> <<>>, err |-> TRUE, last |-> last]
    ELSE [names |-> fg.names, err |-> FALSE, last |-> fg.names]

(***************************************************************************)
(* Go slices of Sessions: a backing array and a length; the capacity is    *)
(* the length of the backing array.                                        *)
(***************************************************************************)
\* the elements of a slice
Elems(sl) == SubSeq(sl.arr, 1, sl.len)

\* append(sl, value): in place when capacity allows, else into a new array
\* of doubled capacity
GoAppend(sl, value) ==
    IF sl.len < Len(sl.arr)
    THEN [arr |-> [sl.arr EXCEPT ![sl.len + 1] = value], len |-> sl.len + 1]
    ELSE LET newcap == IF Len(sl.arr) = 0 THEN 1 ELSE 2 * Len(sl.arr)
         IN [arr |-> [j \in 1..newcap |->
                        IF j <= sl.len THEN sl.arr[j]
                        ELSE IF j = sl.len + 1 THEN value ELSE NoSession],
             len |-> sl.len + 1]

\* append(sl[:i], sl[i+1:]...): shifts the tail left inside the same array
GoRemoveAt(sl, i) ==
    [arr |-> [j \in 1..Len(sl.arr) |->
                IF j >= i /\ j < sl.len THEN sl.arr[j + 1] ELSE sl.arr[j]],
     len |-> sl.len - 1]

\* index of the first element equal to session, 0 when absent
FirstIndex(seq, session) ==
    IF \E i \in 1..Len(seq) : seq[i] = session
    THEN CHOOSE i \in 1..Len(seq) :
            /\ seq[i] = session
            /\ \A j \in 1..(i - 1) : seq[j] # session
    ELSE 0

\* a sequence without its element at index i
RemoveAt(seq, i) == SubSeq(seq, 1, i - 1) \o SubSeq(seq, i + 1, Len(seq))

EmptyMap == [k \in {} |-> [arr |-> <<>>, len |-> 0]]

(***************************************************************************)
(* sessionMap: the key -> sessions map                                     *)
(***************************************************************************)
add(mm, value) ==
    LET key == Key(value)
    IN IF key \in DOMAIN mm
       THEN [mm EXCEPT ![key] = GoAppend(@, value)]
       ELSE [k \in DOMAIN mm \cup {key} |->
                IF k = key THEN [arr |-> <<value>>, len |-> 1] ELSE mm[k]]

get(mm, key) ==
    IF key \in DOMAIN mm
    THEN [ok |-> TRUE, sessions |-> mm[key]]
    ELSE [ok |-> FALSE, sessions |-> [arr |-> <<>>, len |-> 0]]

\* removeSession as it would be without the final delete of an emptied key
removeSessionKeepKey(mm, session) ==
    LET key == Key(session)
    IN IF key \notin DOMAIN mm THEN mm
       ELSE LET i == FirstIndex(Elems(mm[key]), session)
            IN IF i = 0 THEN mm ELSE [mm EXCEPT ![key] = GoRemoveAt(@, i)]

removeSession(mm, session) ==
    LET key == Key(session)
    IN IF key \notin DOMAIN mm THEN mm
       ELSE LET i == FirstIndex(Elems(mm[key]), session)
                removed == IF i = 0 THEN mm[key] ELSE GoRemoveAt(mm[key], i)
            IN IF removed.len = 0
               THEN [k \in DOMAIN mm \ {key} |-> mm[k]]
               ELSE [mm EXCEPT ![key] = removed]

\* every session the map refers to
MapSessions(mm) == UNION { { mm[k].arr[i] : i \in 1..mm[k].len } : k \in DOMAIN mm }

RECURSIVE SumLens(_, _)
SumLens(mm, keys) ==
    IF keys = {} THEN 0
    ELSE LET k == CHOOSE x \in keys : TRUE
         IN mm[k].len + SumLens(mm, keys \ {k})

getSessionCount(mm) == SumLens(mm, DOMAIN mm)

(***************************************************************************)
(* Target resolution                                                       *)
(***************************************************************************)
targetHasSpecialTransform(target) == HasPrefix(target, specialTargetTransformPrefix)

\* unmapped: the side table; win: what util.GetCurrentWindowProcessNames returns
applyTargetTransform(specialTargetName, unmapped, win) ==
    IF specialTargetName \in {specialTargetCurrentFullscreenWindow, specialTargetCurrentWindow}
    THEN IF win.err THEN <<>>
         ELSE UniqString([i \in 1..Len(win.names) |-> ToLower(win.names[i])])
    ELSE IF specialTargetName = specialTargetAllUnmapped
    THEN [i \in 1..Len(unmapped) |-> Key(unmapped[i])]
    ELSE <<>>

resolveTarget(target, unmapped, win) ==
    LET lower == ToLower(target)
    IN IF targetHasSpecialTransform(lower)
       THEN applyTargetTransform(TrimPrefix(lower, specialTargetTransformPrefix), unmapped, win)
       ELSE <<lower>>

\* sessionMapped as it would be without the master/system/mic rule
sessionMappedNoReserved(session, mapping, unmapped, win) ==
    \/ deviceSessionKeyPattern(Key(session))
    \/ \E slider \in DOMAIN mapping : \E i \in 1..Len(mapping[slider]) :
          /\ ~targetHasSpecialTransform(mapping[slider][i])
          /\ resolveTarget(mapping[slider][i], unmapped, win)[1] = Key(session)

sessionMapped(session, mapping, unmapped, win) ==
    \/ Key(session) \in {masterSessionName, systemSessionName, inputSessionName}
    \/ deviceSessionKeyPattern(Key(session))
    \/ \E slider \in DOMAIN mapping : \E i \in 1..Len(mapping[slider]) :
          /\ ~targetHasSpecialTransform(mapping[slider][i])
          /\ resolveTarget(mapping[slider][i], unmapped, win)[1] = Key(session)

\* sessionMapped reads element 0 of what resolveTarget returns for every
\* target its prefix test does not skip, up to the first target of a slider
\* that is the session's key: the read panics when resolveTarget returned
\* no key
sessionMappedPanics(session, mapping, unmapped, win) ==
    /\ Key(session) \notin {masterSessionName, systemSessionName, inputSessionName}
    /\ ~deviceSessionKeyPattern(Key(session))
    /\ \E slider \in DOMAIN mapping : \E i \in 1..Len(mapping[slider]) :
          /\ ~targetHasSpecialTransform(mapping[slider][i])
          /\ resolveTarget(mapping[slider][i], unmapped, win) = <<>>
          /\ \A j \in 1..(i - 1) :
                LET resolved == resolveTarget(mapping[slider][j], unmapped, win)
                IN \/ targetHasSpecialTransform(mapping[slider][j])
                   \/ resolved = <<>>
                   \/ resolved[1] # Key(session)

\* what sessionMapped reads without the lock: the side table, when a target
\* that its prefix test does not skip is deej.unmapped in another letter case
sessionMappedReads(session, mapping) ==
    IF /\ Key(session) \notin {masterSessionName, systemSessionName, inputSessionName}
       /\ ~deviceSessionKeyPattern(Key(session))
       /\ \E slider \in DOMAIN mapping : \E i \in 1..Len(mapping[slider]) :
             /\ ~targetHasSpecialTransform(mapping[slider][i])
             /\ ToLower(mapping[slider][i]) =
                   specialTargetTransformPrefix \o specialTargetAllUnmapped
    THEN {"unmappedSessions"} ELSE {}


(***************************************************************************)
(* Frame decoder: pure parts of SerialIO.handleLine                        *)
(***************************************************************************)
CR == "\r"
LF == "\n"
Digits == <<"0","1","2","3","4","5","6","7","8","9">>

IsDigit(c) == \E i \in 1..10 : Digits[i] = c
DigitValue(c) == (CHOOSE i \in 1..10 : Digits[i] = c) - 1

\* strings.Split(str, sep) for a one-character separator
RECURSIVE Split(_, _)
Split(str, sep) ==
    IF \E i \in 1..Len(str) : str[i] = sep
    THEN LET i == CHOOSE k \in 1..Len(str) :
                    /\ str[k] = sep
                    /\ \A j \in 1..(k - 1) : str[j] # sep
         IN <<SubSeq(str, 1, i - 1)>> \o Split(SubSeq(str, i + 1, Len(str)), sep)
    ELSE <<str>>

\* strconv.Atoi on a string of digits
RECURSIVE Atoi(_)
Atoi(str) ==
    IF str = <<>> THEN 0
    ELSE 10 * Atoi(SubSeq(str, 1, Len(str) - 1)) + DigitValue(str[Len(str)])

\* the line pattern, were a value of no digit let through: `\d{0,4}`
expectedLinePatternEmptyValues(line) ==
    /\ Len(line) >= 2
    /\ line[Len(line) - 1] = CR
    /\ line[Len(line)] = LF
    /\ LET groups == Split(SubSeq(line, 1, Len(line) - 2), "|")
       IN \A g \in 1..Len(groups) :
            /\ Len(groups[g]) \in 0..4
            /\ \A i \in 1..Len(groups[g]) : IsDigit(groups[g][i])

\* regexp `^\d{1,4}(\|\d{1,4})*\r\n$`
expectedLinePattern(line) ==
    /\ Len(line) >= 3
    /\ line[Len(line) - 1] = CR
    /\ line[Len(line)] = LF
    /\ LET groups == Split(SubSeq(line, 1, Len(line) - 2), "|")
       IN \A g \in 1..Len(groups) :
            /\ Len(groups[g]) \in 1..4
            /\ \A i \in 1..Len(groups[g]) : IsDigit(groups[g][i])

\* the scalar in hundredths, were the reading divided by 1024
NormalizeScalarOf1024(number) == (number * 100) \div (MaxRaw + 1)

\* util.NormalizeScalar(float32(number) / 1023.0), in hundredths
NormalizeScalar(number) == (number * 100) \div MaxRaw

NoiseLevels == {"none", "low", "default", "high"}
NoiseThresholdLow == 5
EdgeMargin == 10

\* the thresholds, were their order reversed
NoiseThresholdReversed(level) ==
    CASE level = "none" -> 20
      [] level = "low" -> 10
      [] level = "high" -> 1
      [] OTHER -> NoiseThresholdLow

NoiseThreshold(level) ==
    CASE level = "none" -> 1
      [] level = "low" -> NoiseThresholdLow
      [] level = "high" -> 20
      [] OTHER -> 10

Abs(x) == IF x < 0 THEN 0 - x ELSE x

\* the noise filter, were the threshold the same near the ends of the range
SignificantlyDifferentNoEdge(old, new, noiseReductionLevel) ==
    Abs(old - new) >= NoiseThreshold(noiseReductionLevel)

\* util.SignificantlyDifferent on raw readings
SignificantlyDifferent(old, new, noiseReductionLevel) ==
    LET base == NoiseThreshold(noiseReductionLevel)
        nearEdge == new <= EdgeMargin \/ new >= MaxRaw - EdgeMargin
        threshold == IF nearEdge /\ base > NoiseThresholdLow
                     THEN NoiseThresholdLow ELSE base
    IN Abs(old - new) >= threshold

\* the per-slider loop, were the accepted reading not saved
RECURSIVE DecodeFromNoSave(_, _, _, _, _, _)
DecodeFromNoSave(idx, splitLine, values, events, invert, level) ==
    IF idx > Len(splitLine) THEN [values |-> values, events |-> events]
    ELSE LET number == Atoi(splitLine[idx])
             scalar == NormalizeScalar(number)
             normalizedScalar == IF invert THEN 100 - scalar ELSE scalar
         IN IF idx = 1 /\ number > MaxRaw
            THEN [values |-> values, events |-> <<>>]
            ELSE IF SignificantlyDifferent(values[idx], number, level)
            THEN DecodeFromNoSave(idx + 1, splitLine, values,
                                  Append(events, [SliderID |-> idx - 1,
                                                  PercentValue |-> normalizedScalar]),
                                  invert, level)
            ELSE DecodeFromNoSave(idx + 1, splitLine, values, events, invert, level)

\* the per-slider loop of handleLine from slider index idx (1-based) on;
\* values: the stored readings, events: the move events collected so far
RECURSIVE DecodeFrom(_, _, _, _, _, _)
DecodeFrom(idx, splitLine, values, events, invert, level) ==
    IF idx > Len(splitLine) THEN [values |-> values, events |-> events]
    ELSE LET number == Atoi(splitLine[idx])
             scalar == NormalizeScalar(number)
             normalizedScalar == IF invert THEN 100 - scalar ELSE scalar
         IN IF idx = 1 /\ number > MaxRaw
            THEN [values |-> values, events |-> <<>>]
            ELSE IF SignificantlyDifferent(values[idx], number, level)
            THEN DecodeFrom(idx + 1, splitLine,
                            [values EXCEPT ![idx] = number],
                            Append(events, [SliderID |-> idx - 1,
                                            PercentValue |-> normalizedScalar]),
                            invert, level)
            ELSE DecodeFrom(idx + 1, splitLine, values, events, invert, level)

\* handleLine up to the delivery of the move events: the new slider count,
\* the new stored readings and the move events to deliver
handleLine(line, numSliders, values, invert, level) ==
    IF ~expectedLinePattern(line)
    THEN [num |-> numSliders, values |-> values, events |-> <<>>]
    ELSE LET splitLine == Split(TrimSuffix(line, <<CR, LF>>), "|")
             count == Len(splitLine)
             start == IF count # numSliders
                      THEN [i \in 1..count |-> ResetSentinel]
                      ELSE values
             decoded == DecodeFrom(1, splitLine, start, <<>>, invert, level)
         IN [num |-> count, values |-> decoded.values, events |-> decoded.events]

\* strconv.Itoa: what the sender of the lines prints for a reading
RECURSIVE Itoa(_)
Itoa(n) ==
    IF n < 10 THEN <<Digits[n + 1]>>
    ELSE Itoa(n \div 10) \o <<Digits[(n % 10) + 1]>>

\* the readings joined by '|'
RECURSIVE JoinReadings(_)
JoinReadings(readings) ==
    IF Len(readings) = 1 THEN Itoa(readings[1])
    ELSE Itoa(readings[1]) \o <<"|">> \o JoinReadings(Tail(readings))

\* the line the sender prints for the readings of its sliders
FormatLine(readings) == JoinReadings(readings) \o <<CR, LF>>

\* readings: both ends of the range and their neighbourhood, mid-range
\* readings 3, 8, 15 and 30 apart, and a garbled reading beyond the range
Readings == {0, 2, 50, 500, 503, 508, 515, 530, 1015, MaxRaw, 9999}

\* the readings of the lines: one slider at any reading, and two or three sliders
ReadingLists ==
    { <<r>> : r \in Readings }
    \cup { <<a, b>> : a \in {500, 9999}, b \in {0, 503, MaxRaw, 9999} }
    \cup { <<500, 0, MaxRaw>>, <<503, 2, 1015>> }

\* lines that the line pattern rejects, each ended by LF as readLoop reads
\* them: no CR, a letter, five digits, a value of no digit, nothing
MalformedLines ==
    { <<"5","0","0", LF>>,
      <<"5","a","0", CR, LF>>,
      <<"1","0","2","3","0", CR, LF>>,
      <<"5","|","|","0", CR, LF>>,
      <<"|","5", CR, LF>>,
      <<CR, LF>>,
      <<LF>> }

\* the lines the serial link delivers
DecoderLines == { FormatLine(readings) : readings \in ReadingLists } \cup MalformedLines

\* "512|0|0|1023|0" CRLF
EndToEndLine == <<"5","1","2","|","0","|","0","|","1","0","2","3","|","0", CR, LF>>


(***************************************************************************)
(* State                                                                   *)
(***************************************************************************)
VARIABLES
    eventDriven,          \* sessionMap.eventDriven
    SliderMapping,        \* config.SliderMapping
    InvertSliders,        \* config.InvertSliders
    NoiseReductionLevel,  \* config.NoiseReductionLevel
    status,               \* per Session handle: "unborn", "live" or "released"
    vol,                  \* per Session handle: its volume
    sessionEventChan,     \* the backend's buffered channel of SessionEvents
    m,                    \* sessionMap.m
    unmappedSessions,     \* sessionMap.unmappedSessions
    sinceRefresh,         \* time.Now() less sessionMap.lastSessionRefresh, in seconds:
                          \* 0 from a refresh until the cooldown is over
    pc,                   \* where each goroutine of the sessionMap stands
    event,                \* handleSliderMoveEvent: the event being handled
    eventTargets,         \* handleSliderMoveEvent: targets, as read from the config
    targets,              \* handleSliderMoveEvent: targets still to resolve
    resolvedTargets,      \* handleSliderMoveEvent: resolved targets still to look up
    sessions,             \* handleSliderMoveEvent: the slice get returned, and the loop index;
                          \* history, in got: its elements when get returned it
    targetFound,          \* handleSliderMoveEvent: local
    adjustmentFailed,     \* handleSliderMoveEvent: local
    snapshot,             \* getAndAddSessions, per goroutine: sessions still to add
    current,              \* the session of the SessionEvent being handled
    reloadPending,        \* a config reload signal is waiting for the sessionMap
    countChangePending,   \* sessionCountChangeChan holds a notification
    lastKnownNumSliders,  \* SerialIO.lastKnownNumSliders
    currentSliderValues,  \* SerialIO.currentSliderValues
    moveEvents,           \* handleLine: move events not yet delivered
    linesRead,            \* number of lines handed to handleLine
    unsetPending,         \* a config reload has yet to unset lastKnownNumSliders
    lastLines,            \* history: the two lines handleLine was last called with,
                          \* the latest last; none once the configuration is reloaded
    sliderMoveConsumers,  \* SerialIO.sliderMoveConsumers, by the name of the subscriber
    consumerIdx,          \* handleLine: the index of the consumer being served
    lineEvents,           \* handleLine: the move events of the line
    received,             \* history, per subscriber: the move events of the line
                          \* it has received
    worker,               \* wcaSessionFinder: where sessionFinderWorker stands
    cancelled,            \* wcaSessionFinder.workerCtx is cancelled
    deviceManagers,       \* wcaSessionFinder.deviceManagers: per device ID the handle
                          \* of its masterSession, 0 for nil
    trackedSessions,      \* wcaSessionFinder.trackedSessions: per session ID the
                          \* handle of its session
    master,               \* wcaSessionFinder.masterOut and masterIn: the handle, 0 for nil
    releaseCalls,         \* per Session handle: the calls of its Release
    enumeratorReleases,   \* the calls of mmDeviceEnumerator.Release
    emitted,              \* history: the SessionEvents handed to emitSessionEvent
    liveAtRelease,        \* history: the handles that were live when Release was called
    engine,               \* Deej: where Initialize, run and stop stand
    stopChannel,          \* SerialIO.stopChannel: "open" or "closed"
    port,                 \* SerialIO.port: "open", or "closed" for nil
    errChannel,           \* SerialIO.errChannel: the errors it holds, one at most
    loops,                \* per goroutine with a loop: "unstarted", "running" or "returned"
    foreground,           \* the foreground window of the desktop
    lastGetCurrentWindowResult,  \* util.lastGetCurrentWindowResult
    windowCooldown,       \* less than getCurrentWindowInternalCooldown has passed
                          \* since util.lastGetCurrentWindowCall
    stopChannels,         \* the channels SerialIO.Start has made, each "open" or
                          \* "closed"; SerialIO.stopChannel is the last, nil when none
    openedPorts,          \* the ports serial.Open has returned, each "open" or "closed"
    sioPort,              \* SerialIO.port: the index of the port, 0 for nil
    errChannelBuf,        \* SerialIO.errChannel: per error it holds, the port whose
                          \* readLoop sent it
    managerLoops,         \* per call of Start: where its managerLoop stands
    readLoops,            \* per port: where its readLoop stands
    notified,             \* history: the states sent to the state change consumers
    restartPc,            \* where the goroutine of setupOnConfigReload stands
    closePanic,           \* close has panicked on a nil or closed channel
    paFinder,             \* paSessionFinder: masterSink and masterSource, the handle
                          \* or 0 for nil, and whether client.Callback is set
    paRefresh,            \* per goroutine of refreshMaster: where it stands, the
                          \* master it refreshes and its local old
    lockUse,              \* history, per goroutine of the sessionMap, of its latest
                          \* step: the fields of the sessionMap it accessed without
                          \* holding sessionMap.lock, and the Session calls it made
                          \* while holding it
    calls,                \* history: Session calls of the routing engine
    before,               \* history, per goroutine: the map a refresh cleared
    removedHandled        \* history: sessions whose Removed event was handled

dirVars == <<m, unmappedSessions, sinceRefresh, countChangePending>>
backendVars == <<status, vol, sessionEventChan>>
configVars == <<SliderMapping, InvertSliders, NoiseReductionLevel, reloadPending>>
sliderVars == <<event, eventTargets, targets, resolvedTargets, sessions,
                targetFound, adjustmentFailed, calls>>
finderVars == <<worker, cancelled, deviceManagers, trackedSessions, master,
                releaseCalls, enumeratorReleases, emitted, liveAtRelease>>
engineVars == <<engine, stopChannel, port, errChannel, loops>>
windowVars == <<foreground, lastGetCurrentWindowResult, windowCooldown>>
pulseVars == <<paFinder, paRefresh>>
linkVars == <<stopChannels, openedPorts, sioPort, errChannelBuf, managerLoops, readLoops,
              notified, restartPc, closePanic>>
fanVars == <<sliderMoveConsumers, consumerIdx, lineEvents, received>>
serialVars == <<lastKnownNumSliders, currentSliderValues, moveEvents, linesRead,
                unsetPending, lastLines, fanVars>>
vars == <<eventDriven, keyOf, SliderMapping, InvertSliders, NoiseReductionLevel, status, vol,
          sessionEventChan, m, unmappedSessions, sinceRefresh, pc, event,
          eventTargets, targets, resolvedTargets, sessions, targetFound,
          adjustmentFailed, snapshot, current, reloadPending, countChangePending,
          lastKnownNumSliders, currentSliderValues, moveEvents, unsetPending, lastLines,
          linesRead, sliderMoveConsumers, consumerIdx, lineEvents, received,
          worker, cancelled, deviceManagers, trackedSessions, master, releaseCalls,
          enumeratorReleases, emitted, liveAtRelease, engine, stopChannel, port,
          errChannel, loops, foreground, lastGetCurrentWindowResult, windowCooldown,
          stopChannels, openedPorts, sioPort, errChannelBuf, managerLoops, readLoops,
          notified, restartPc, closePanic, paFinder, paRefresh,
          lockUse, calls, before, removedHandled>>

\* the history of lines when handleLine has not been called
NoLines == << <<>>, <<>> >>

\* the goroutines of the engine that loop on a serial read or a channel receive
Loops == {"manager", "reader", "slider", "events", "reload"}

\* the handles of the Sessions the WCA session finder creates
Handles == 1..MaxHandles

\* the audio devices with sessions of processes, and the session IDs of the master output and input
Devices == {"speakers"}
MasterIDs == { <<"master_output">>, <<"master_input">> }

\* the subscribers to slider move events, and what they have received of a
\* line when nothing was sent
Subscribers == {"sessionMap", "tray"}
NoneReceived == [c \in Subscribers |-> <<>>]

\* the delivery loop of handleLine after a send to the consumer at idx, left
\* being the events it had yet to receive: the consumer served next and the
\* events to send it; the first consumer and none once the loop is over
afterSendFirstOnly(idx, left, all, numConsumers) ==
    IF Len(left) > 1 THEN [consumer |-> idx, events |-> Tail(left)]
    ELSE [consumer |-> 1, events |-> <<>>]

afterSend(idx, left, all, numConsumers) ==
    IF Len(left) > 1 THEN [consumer |-> idx, events |-> Tail(left)]
    ELSE IF idx < numConsumers THEN [consumer |-> idx + 1, events |-> all]
    ELSE [consumer |-> 1, events |-> <<>>]

\* the goroutines that run getAndAddSessions
RefreshFlows == {"slider", "reload"}
Flows == {"slider", "reload", "events"}

\* a step that accesses no field of the sessionMap without its lock and
\* calls no Session while holding it
NoLockUse == [unlocked |-> {}, held |-> {}]

\* the step of goroutine f accesses the fields unlocked without the lock and
\* makes the Session calls held while holding it
LockUse(f, unlocked, held) ==
    lockUse' = [lockUse EXCEPT ![f] = [unlocked |-> unlocked, held |-> held]]

\* the time since the zero time.Time: no less than the refresh cooldown
SinceZeroTime == minTimeBetweenSessionRefreshes

\* the slice of handleSliderMoveEvent when it holds none
NoSlice == [arr |-> <<>>, len |-> 0, idx |-> 1, key |-> <<>>, shared |-> FALSE,
            got |-> <<>>]

\* Session handles are numbered in the order of their creation: whether S is
\* the next handles to create, given the status of each handle
NextHandles(S, st) ==
    /\ \A s \in S : st[s] = "unborn"
    /\ \A s \in S : \A t \in Sessions : t < s => (t \in S \/ st[t] # "unborn")

\* all orderings of a set of sessions
Orderings(S) ==
    { seq \in [1..Cardinality(S) -> S] :
        \A i, j \in 1..Cardinality(S) : i # j => seq[i] # seq[j] }

\* the body of getAndAddSessions' loop for one session
AddTracked(state, session, mapping, win) ==
    [m |-> add(state.m, session),
     unmapped |-> IF sessionMapped(session, mapping, state.unmapped, win)
                  THEN state.unmapped
                  ELSE Append(state.unmapped, session)]

\* getAndAddSessions on a clean map, for the sessions the finder returned
RECURSIVE getAndAddSessions(_, _, _)
getAndAddSessions(found, mapping, win) ==
    IF found = <<>> THEN [m |-> EmptyMap, unmapped |-> <<>>]
    ELSE AddTracked(getAndAddSessions(SubSeq(found, 1, Len(found) - 1), mapping, win),
                    found[Len(found)], mapping, win)

\* what a mutation of the map does to the slice handleSliderMoveEvent holds:
\* a mutation in place shows through, a new or dropped array does not
Realias(slice, old, new) ==
    IF ~slice.shared THEN slice
    ELSE IF /\ slice.key \in DOMAIN old
            /\ slice.key \in DOMAIN new
            /\ Len(new[slice.key].arr) = Len(old[slice.key].arr)
    THEN [slice EXCEPT !.arr = new[slice.key].arr]
    ELSE [slice EXCEPT !.shared = FALSE]

\* emitSessionEvent making room for the event by dropping the oldest one
emitSessionEventDropOldest(chan, ev) ==
    IF Len(chan) < MaxEventChan THEN Append(chan, ev) ELSE Append(Tail(chan), ev)

\* emitSessionEvent: non-blocking send, the event is dropped when the channel is full
emitSessionEvent(chan, ev) ==
    IF Len(chan) < MaxEventChan THEN Append(chan, ev) ELSE chan

(***************************************************************************)
(* Initial states                                                          *)
(***************************************************************************)
\* what is the same in every specification
InitCommon ==
    /\ sessionEventChan = <<>>
    /\ pc = [f \in Flows |-> IF f = "events" THEN "recv" ELSE "idle"]
    /\ event = [SliderID |-> 0, PercentValue |-> 0]
    /\ eventTargets = <<>>
    /\ targets = <<>>
    /\ resolvedTargets = <<>>
    /\ sessions = NoSlice
    /\ targetFound = FALSE
    /\ adjustmentFailed = FALSE
    /\ snapshot = [f \in RefreshFlows |-> <<>>]
    /\ current = NoSession
    /\ reloadPending = FALSE
    /\ lastKnownNumSliders = 0
    /\ currentSliderValues = <<>>
    /\ moveEvents = <<>>
    /\ linesRead = 0
    /\ unsetPending = FALSE
    /\ lastLines = NoLines
    /\ consumerIdx = 1
    /\ lineEvents = <<>>
    /\ cancelled = FALSE
    /\ deviceManagers = [d \in {} |-> 0]
    /\ trackedSessions = [id \in {} |-> 0]
    /\ master = [id \in MasterIDs |-> 0]
    /\ releaseCalls = [h \in Handles |-> 0]
    /\ enumeratorReleases = 0
    /\ emitted = <<>>
    /\ liveAtRelease = {}
    /\ stopChannel = "open"
    /\ errChannel = 0
    /\ received = NoneReceived
    /\ lockUse = [f \in Flows |-> NoLockUse]
    /\ foreground = NoWindow
    /\ lastGetCurrentWindowResult = <<>>
    /\ windowCooldown = TRUE
    /\ stopChannels = <<>>
    /\ openedPorts = <<>>
    /\ sioPort = 0
    /\ errChannelBuf = <<>>
    /\ managerLoops = <<>>
    /\ readLoops = [k \in 1..MaxConnects |-> "none"]
    /\ notified = <<>>
    /\ restartPc = "idle"
    /\ closePanic = FALSE
    /\ paFinder = [sink |-> 0, source |-> 0, callback |-> FALSE]
    /\ paRefresh = [r \in 1..MaxRefreshes |-> [pc |-> "idle", which |-> "sink", old |-> 0]]
    /\ calls = <<>>
    /\ before = [f \in RefreshFlows |-> EmptyMap]
    /\ removedHandled = {}

\* the engine is running: the session finder is initialized, the serial link
\* is connected and every goroutine is in its loop
InitRunning ==
    /\ worker = "ready"
    /\ engine = "running"
    /\ port = "open"
    /\ loops = [l \in Loops |-> "running"]

\* sessionMap.initialize: an event-driven finder starts with an empty map and
\* feeds it through events; otherwise the map holds a first getAndAddSessions
Init ==
    /\ InitCommon
    /\ InitRunning
    /\ NoiseReductionLevel = "default"
    /\ InvertSliders = FALSE
    /\ sliderMoveConsumers = <<"sessionMap">>
    /\ eventDriven \in BOOLEAN
    /\ keyOf \in { KeysFrom(table) : table \in KeyTables }
    /\ SliderMapping \in Configs
    /\ vol = [s \in Sessions |-> 0]
    /\ \E S \in SUBSET Sessions : \E found \in Orderings(S) : \E win \in WindowResults :
          /\ eventDriven => S = {}
          /\ NextHandles(S, [s \in Sessions |-> "unborn"])
          /\ status = [s \in Sessions |-> IF s \in S THEN "live" ELSE "unborn"]
          /\ m = getAndAddSessions(found, SliderMapping, win).m
          /\ unmappedSessions = getAndAddSessions(found, SliderMapping, win).unmapped
    /\ sinceRefresh = IF eventDriven THEN SinceZeroTime ELSE 0
    /\ countChangePending = ~eventDriven


(***************************************************************************)
(* The event-driven session finder                                         *)
(***************************************************************************)
\* addSessionFromControl, createDeviceManager, refreshMasterOutput/Input:
\* a new Session is tracked and announced
finderAddSession(s) ==
    /\ eventDriven
    /\ NextHandles({s}, status)
    /\ status' = [status EXCEPT ![s] = "live"]
    /\ sessionEventChan' =
          emitSessionEvent(sessionEventChan, [Type |-> "Added", Session |-> s])
    /\ UNCHANGED <<eventDriven, keyOf, windowVars, linkVars, pulseVars, lockUse, finderVars, engineVars, vol, dirVars, configVars, sliderVars, serialVars, pc,
                   snapshot, current, before, removedHandled>>

\* wcaSessionFinder.removeSession, removeDeviceManager, refreshMasterOutput/Input:
\* the Session is untracked, its removal announced, and then it is released
finderRemoveSession(s) ==
    /\ eventDriven
    /\ status[s] = "live"
    /\ sessionEventChan' =
          emitSessionEvent(sessionEventChan, [Type |-> "Removed", Session |-> s])
    /\ status' = [status EXCEPT ![s] = "released"]
    /\ UNCHANGED <<eventDriven, keyOf, windowVars, linkVars, pulseVars, lockUse, finderVars, engineVars, vol, dirVars, configVars, sliderVars, serialVars, pc,
                   snapshot, current, before, removedHandled>>

\* removeDeviceManager for a device whose master session could not be
\* created: the removal is announced with the nil masterSession as Session
finderRemoveDeviceManager ==
    /\ eventDriven
    /\ sessionEventChan' =
          emitSessionEvent(sessionEventChan, [Type |-> "Removed", Session |-> NoSession])
    /\ UNCHANGED <<eventDriven, keyOf, windowVars, linkVars, pulseVars, lockUse, finderVars, engineVars, status, vol,
                   dirVars, configVars, sliderVars, serialVars, pc, snapshot, current,
                   before, removedHandled>>

(***************************************************************************)
(* The session event goroutine (setupOnSessionEvents)                      *)
(***************************************************************************)
\* handleSessionAdded, up to the end of m.add
handleSessionAdded ==
    /\ pc["events"] = "recv"
    /\ sessionEventChan # <<>>
    /\ Head(sessionEventChan).Type = "Added"
    /\ sessionEventChan' = Tail(sessionEventChan)
    /\ current' = Head(sessionEventChan).Session
    /\ m' = add(m, current')
    /\ sessions' = Realias(sessions, m, m')
    /\ pc' = [pc EXCEPT !["events"] = "added"]
    /\ LockUse("events", {}, {})
    /\ UNCHANGED <<eventDriven, keyOf, windowVars, linkVars, pulseVars, finderVars, engineVars, countChangePending, status, vol, unmappedSessions, sinceRefresh,
                   configVars, serialVars, event, eventTargets,
                   targets, resolvedTargets, targetFound, adjustmentFailed, calls,
                   snapshot, before, removedHandled>>

\* handleSessionAdded, from the sessionMapped test on
trackUnmapped ==
    /\ pc["events"] = "added"
    /\ \E win \in WindowResults :
          /\ ~sessionMappedPanics(current, SliderMapping, unmappedSessions, win)
          /\ unmappedSessions' =
                IF sessionMapped(current, SliderMapping, unmappedSessions, win)
                THEN unmappedSessions
                ELSE Append(unmappedSessions, current)
    /\ countChangePending' = TRUE
    /\ current' = NoSession
    /\ pc' = [pc EXCEPT !["events"] = "recv"]
    /\ LockUse("events", sessionMappedReads(current, SliderMapping), {})
    /\ UNCHANGED <<eventDriven, keyOf, windowVars, linkVars, pulseVars, finderVars, engineVars, backendVars, m, sinceRefresh, configVars, sliderVars,
                   serialVars, snapshot, before, removedHandled>>

\* handleSessionAdded, the sessionMapped test panics: the goroutine of the
\* session events dies and the process with it
sessionMappedPanic ==
    /\ pc["events"] = "added"
    /\ \E win \in WindowResults :
          sessionMappedPanics(current, SliderMapping, unmappedSessions, win)
    /\ pc' = [f \in Flows |-> "panic"]
    /\ LockUse("events", sessionMappedReads(current, SliderMapping), {})
    /\ UNCHANGED <<eventDriven, keyOf, windowVars, linkVars, pulseVars, finderVars, engineVars, backendVars, dirVars, configVars,
                   sliderVars, serialVars, snapshot, current, before, removedHandled>>

\* handleSessionRemoved, up to the end of m.removeSession
handleSessionRemoved ==
    /\ pc["events"] = "recv"
    /\ sessionEventChan # <<>>
    /\ Head(sessionEventChan).Type = "Removed"
    /\ Head(sessionEventChan).Session # NoSession
    /\ sessionEventChan' = Tail(sessionEventChan)
    /\ current' = Head(sessionEventChan).Session
    /\ m' = removeSession(m, current')
    /\ sessions' = Realias(sessions, m, m')
    /\ pc' = [pc EXCEPT !["events"] = "removed"]
    /\ LockUse("events", {}, {})
    /\ UNCHANGED <<eventDriven, keyOf, windowVars, linkVars, pulseVars, finderVars, engineVars, countChangePending, status, vol, unmappedSessions, sinceRefresh,
                   configVars, serialVars, event, eventTargets,
                   targets, resolvedTargets, targetFound, adjustmentFailed, calls,
                   snapshot, before, removedHandled>>

\* handleSessionRemoved for an event whose Session is nil: Key is called on
\* it for the log line, ahead of the nil test, and the call panics
handleSessionRemovedNil ==
    /\ pc["events"] = "recv"
    /\ sessionEventChan # <<>>
    /\ Head(sessionEventChan).Type = "Removed"
    /\ Head(sessionEventChan).Session = NoSession
    /\ sessionEventChan' = Tail(sessionEventChan)
    /\ pc' = [f \in Flows |-> "panic"]
    /\ LockUse("events", {}, {})
    /\ UNCHANGED <<eventDriven, keyOf, windowVars, linkVars, pulseVars, finderVars, engineVars, status, vol, dirVars,
                   configVars, sliderVars, serialVars, snapshot, current, before,
                   removedHandled>>

\* handleSessionRemoved, from the removal from unmappedSessions on
untrackUnmapped ==
    /\ pc["events"] = "removed"
    /\ LET i == FirstIndex(unmappedSessions, current)
       IN unmappedSessions' =
             IF i = 0 THEN unmappedSessions ELSE RemoveAt(unmappedSessions, i)
    /\ removedHandled' = removedHandled \cup {current}
    /\ countChangePending' = TRUE
    /\ current' = NoSession
    /\ pc' = [pc EXCEPT !["events"] = "recv"]
    /\ LockUse("events", {}, {})
    /\ UNCHANGED <<eventDriven, keyOf, windowVars, linkVars, pulseVars, finderVars, engineVars, backendVars, m, sinceRefresh, configVars, sliderVars,
                   serialVars, snapshot, before>>


(***************************************************************************)
(* The slider move goroutine (setupOnSliderMove): handleSliderMoveEvent    *)
(***************************************************************************)
\* where handleSliderMoveEvent continues, given the targets and the resolved
\* targets still to go through
NextPc(tg, rt) ==
    IF rt # <<>> THEN "lookup" ELSE IF tg # <<>> THEN "resolve" ELSE "post"

\* the locals of handleSliderMoveEvent while no event is being handled
NoEvent == [SliderID |-> 0, PercentValue |-> 0]

\* the receive of a move event and the read of the slider's targets; an event
\* of a slider without mapping is dropped at once
StartHandling(id, value) ==
    /\ pc["slider"] = "idle"
    /\ UNCHANGED <<targetFound, adjustmentFailed, resolvedTargets, sessions>>
    /\ IF id \in DOMAIN SliderMapping
       THEN /\ event' = [SliderID |-> id, PercentValue |-> value]
            /\ eventTargets' = SliderMapping[id]
            /\ targets' = SliderMapping[id]
            /\ pc' = [pc EXCEPT !["slider"] = NextPc(SliderMapping[id], <<>>)]
       ELSE UNCHANGED <<event, eventTargets, targets, pc>>

\* a move event from the serial link, any slider and any value; the history
\* of calls starts anew with the event
sliderMoved(id, value) ==
    /\ StartHandling(id, value)
    /\ calls' = <<>>
    /\ LockUse("slider", {}, {})
    /\ UNCHANGED <<eventDriven, keyOf, windowVars, linkVars, pulseVars, finderVars, engineVars, backendVars, dirVars, configVars, serialVars,
                   snapshot, current, before, removedHandled>>

\* resolveTarget for the next target of the slider
resolve ==
    /\ pc["slider"] = "resolve"
    /\ \E win \in WindowResults :
          resolvedTargets' = resolveTarget(Head(targets), unmappedSessions, win)
    /\ targets' = Tail(targets)
    /\ pc' = [pc EXCEPT !["slider"] = NextPc(targets', resolvedTargets')]
    /\ LockUse("slider",
               IF ToLower(Head(targets)) = specialTargetTransformPrefix \o specialTargetAllUnmapped
               THEN {"unmappedSessions"} ELSE {}, {})
    /\ UNCHANGED <<eventDriven, keyOf, windowVars, linkVars, pulseVars, finderVars, engineVars, backendVars, dirVars, configVars, serialVars, event,
                   eventTargets, sessions, targetFound, adjustmentFailed, calls,
                   snapshot, current, before, removedHandled>>

\* resolveTarget for the next target of the slider, when it is
\* deej.current or deej.current.fullscreen, with the call of
\* util.GetCurrentWindowProcessNames it makes; applyTargetTransform
\* lowercases the names in the slice it was given, the cached one
resolveWindowTarget ==
    /\ pc["slider"] = "resolve"
    /\ ToLower(Head(targets)) \in {DeejCurrent, DeejCurrentFullscreen}
    /\ LET call == getCurrentWindowProcessNames(
                       ToLower(Head(targets)) = DeejCurrentFullscreen,
                       foreground, lastGetCurrentWindowResult, windowCooldown)
       IN /\ resolvedTargets' =
                resolveTarget(Head(targets), unmappedSessions,
                              [err |-> call.err, names |-> call.names])
          /\ lastGetCurrentWindowResult' =
                IF call.err \/ call.names = <<>> THEN call.last
                ELSE [i \in 1..Len(call.names) |-> ToLower(call.names[i])]
    /\ windowCooldown' = TRUE
    /\ targets' = Tail(targets)
    /\ pc' = [pc EXCEPT !["slider"] = NextPc(targets', resolvedTargets')]
    /\ LockUse("slider", {}, {})
    /\ UNCHANGED <<eventDriven, keyOf, linkVars, pulseVars, foreground, finderVars, engineVars, backendVars, dirVars,
                   configVars, serialVars, event, eventTargets, sessions, targetFound,
                   adjustmentFailed, calls, snapshot, current, before, removedHandled>>

\* another window comes to the foreground, or the foreground window
\* enters or leaves fullscreen
foregroundChanges(fg) ==
    /\ fg # foreground
    /\ foreground' = fg
    /\ UNCHANGED <<eventDriven, keyOf, linkVars, pulseVars, lastGetCurrentWindowResult, windowCooldown, lockUse,
                   finderVars, engineVars, backendVars, dirVars, configVars, sliderVars,
                   serialVars, pc, snapshot, current, before, removedHandled>>

\* getCurrentWindowInternalCooldown has passed since the last call
windowCooldownOver ==
    /\ windowCooldown
    /\ windowCooldown' = FALSE
    /\ UNCHANGED <<eventDriven, keyOf, linkVars, pulseVars, foreground, lastGetCurrentWindowResult, lockUse,
                   finderVars, engineVars, backendVars, dirVars, configVars, sliderVars,
                   serialVars, pc, snapshot, current, before, removedHandled>>

\* m.get for the next resolved target
lookup ==
    /\ pc["slider"] = "lookup"
    /\ resolvedTargets' = Tail(resolvedTargets)
    /\ LET got == get(m, Head(resolvedTargets))
       IN IF got.ok
          THEN /\ targetFound' = TRUE
               /\ IF got.sessions.len = 0
                  THEN /\ sessions' = NoSlice
                       /\ pc' = [pc EXCEPT !["slider"] = NextPc(targets, resolvedTargets')]
                  ELSE /\ sessions' = [arr |-> got.sessions.arr, len |-> got.sessions.len,
                                       idx |-> 1, key |-> Head(resolvedTargets),
                                       shared |-> TRUE,
                                       got |-> Elems(got.sessions)]
                       /\ pc' = [pc EXCEPT !["slider"] = "adjust"]
          ELSE /\ UNCHANGED <<targetFound, sessions>>
               /\ pc' = [pc EXCEPT !["slider"] = NextPc(targets, resolvedTargets')]
    /\ LockUse("slider", {}, {})
    /\ UNCHANGED <<eventDriven, keyOf, windowVars, linkVars, pulseVars, finderVars, engineVars, backendVars, dirVars, configVars, serialVars, event,
                   eventTargets, targets, adjustmentFailed, calls,
                   snapshot, current, before, removedHandled>>

\* the loop over the sessions, were a failed SetVolume to end the pass
adjustAbortsOnFailure(outcomes, tracked) ==
    /\ pc["slider"] = "adjust"
    /\ LET session == sessions.arr[sessions.idx]
       IN \E reading \in (IF tracked THEN {vol[session]} ELSE Volumes) :
          LET differs == reading # event.PercentValue
          IN \E ok \in (IF differs THEN outcomes ELSE {TRUE}) :
               /\ vol' = IF tracked /\ differs /\ ok
                         THEN [vol EXCEPT ![session] = event.PercentValue]
                         ELSE vol
               /\ adjustmentFailed' = (adjustmentFailed \/ ~ok)
               /\ calls' = IF tracked
                           THEN Append(calls, [session |-> session,
                                               set |-> differs,
                                               value |-> event.PercentValue])
                           ELSE calls
               /\ IF ~ok
                  THEN /\ sessions' = NoSlice
                       /\ targets' = <<>>
                       /\ resolvedTargets' = <<>>
                       /\ pc' = [pc EXCEPT !["slider"] = "post"]
                  ELSE /\ UNCHANGED <<targets, resolvedTargets>>
                       /\ IF sessions.idx >= sessions.len
                          THEN /\ sessions' = NoSlice
                               /\ pc' = [pc EXCEPT !["slider"] =
                                            NextPc(targets, resolvedTargets)]
                          ELSE /\ sessions' = [sessions EXCEPT !.idx = @ + 1]
                               /\ pc' = pc
    /\ LockUse("slider", {}, {})
    /\ UNCHANGED <<eventDriven, keyOf, windowVars, linkVars, pulseVars, finderVars, engineVars, status, sessionEventChan, dirVars, configVars, serialVars,
                   event, eventTargets, targetFound,
                   snapshot, current, before, removedHandled>>

\* one iteration of the loop over the sessions of a target: GetVolume, and
\* SetVolume when the volume differs; outcomes: the results SetVolume can have
\* (TRUE: no error). When tracked, the volume of the Session is the one in vol
\* and the call enters the history; otherwise GetVolume can report any volume,
\* as other programs change it as well.
adjust(outcomes, tracked) ==
    /\ pc["slider"] = "adjust"
    /\ LET session == sessions.arr[sessions.idx]
       IN \E reading \in (IF tracked THEN {vol[session]} ELSE Volumes) :
          LET differs == reading # event.PercentValue
          IN \E ok \in (IF differs THEN outcomes ELSE {TRUE}) :
               /\ vol' = IF tracked /\ differs /\ ok
                         THEN [vol EXCEPT ![session] = event.PercentValue]
                         ELSE vol
               /\ adjustmentFailed' = (adjustmentFailed \/ ~ok)
               /\ calls' = IF tracked
                           THEN Append(calls, [session |-> session,
                                               set |-> differs,
                                               value |-> event.PercentValue])
                           ELSE calls
    /\ IF sessions.idx >= sessions.len
       THEN /\ sessions' = NoSlice
            /\ pc' = [pc EXCEPT !["slider"] = NextPc(targets, resolvedTargets)]
       ELSE /\ sessions' = [sessions EXCEPT !.idx = @ + 1]
            /\ pc' = pc
    /\ LockUse("slider", {}, {})
    /\ UNCHANGED <<eventDriven, keyOf, windowVars, linkVars, pulseVars, finderVars, engineVars, status, sessionEventChan, dirVars, configVars, serialVars,
                   event, eventTargets, targets, resolvedTargets, targetFound,
                   snapshot, current, before, removedHandled>>

\* the refreshSessions call that ends handleSliderMoveEvent, were the
\* not-found refresh made in event-driven mode too
refreshRequestAnyMode(found, failed, isEventDriven) ==
    IF ~found THEN "nonforced"
    ELSE IF failed THEN "forced" ELSE "none"

\* the refreshSessions call that ends handleSliderMoveEvent
refreshRequest(found, failed, isEventDriven) ==
    IF ~found /\ ~isEventDriven THEN "nonforced"
    ELSE IF failed THEN "forced" ELSE "none"

\* refreshSessions, were the cooldown to apply to forced calls too
refreshRunsCooldownAlways(force, since) ==
    ~(since < minTimeBetweenSessionRefreshes)

\* refreshSessions, were there no cooldown
refreshRunsNoCooldown(force, since) == TRUE

\* refreshSessions: whether the call gets past the cooldown test
refreshRuns(force, since) ==
    ~(~force /\ since < minTimeBetweenSessionRefreshes)

\* the end of handleSliderMoveEvent: the decision to refresh
post ==
    /\ pc["slider"] = "post"
    /\ LET request == refreshRequest(targetFound, adjustmentFailed, eventDriven)
       IN pc' = [pc EXCEPT !["slider"] =
                    IF /\ request # "none"
                       /\ refreshRuns(request = "forced", sinceRefresh)
                    THEN "clear" ELSE "idle"]
    /\ event' = NoEvent
    /\ eventTargets' = <<>>
    /\ targetFound' = FALSE
    /\ adjustmentFailed' = FALSE
    /\ LockUse("slider", {}, {})
    /\ UNCHANGED <<eventDriven, keyOf, windowVars, linkVars, pulseVars, finderVars, engineVars, backendVars, dirVars, configVars, serialVars, targets, resolvedTargets, sessions, calls, snapshot, current, before,
                   removedHandled>>

(***************************************************************************)
(* refreshSessions, run by the slider move goroutine and by the config     *)
(* reload goroutine                                                        *)
(***************************************************************************)
\* sessionMap.clear
clear(f) ==
    /\ pc[f] = "clear"
    /\ status' = IF eventDriven THEN status
                 ELSE [s \in Sessions |->
                         IF s \in MapSessions(m) THEN "released" ELSE status[s]]
    /\ m' = EmptyMap
    /\ sessions' = Realias(sessions, m, m')
    /\ before' = [before EXCEPT ![f] = m]
    /\ pc' = [pc EXCEPT ![f] = "get"]
    /\ LockUse(f, {}, IF eventDriven THEN {}
                      ELSE { [op |-> "Release", session |-> s] : s \in MapSessions(m) })
    /\ UNCHANGED <<eventDriven, keyOf, windowVars, linkVars, pulseVars, finderVars, engineVars, countChangePending, vol, sessionEventChan, unmappedSessions, sinceRefresh,
                   configVars, serialVars, event, eventTargets,
                   targets, resolvedTargets, targetFound, adjustmentFailed, calls,
                   snapshot, current, removedHandled>>

\* getAndAddSessions up to the return of GetAllSessions: an event-driven finder
\* returns the sessions it tracks, a polling one creates a Session per endpoint
\* it finds, or fails
getAllSessions(f) ==
    /\ pc[f] = "get"
    /\ sinceRefresh' = 0
    /\ unmappedSessions' = <<>>
    /\ \/ /\ ~eventDriven
          /\ pc' = [pc EXCEPT ![f] = "idle"]
          /\ before' = [before EXCEPT ![f] = EmptyMap]
          /\ UNCHANGED <<status, snapshot, countChangePending>>
       \/ \E S \in SUBSET Sessions : \E found \in Orderings(S) :
             /\ IF eventDriven
                THEN S = { s \in Sessions : status[s] = "live" }
                ELSE NextHandles(S, status)
             /\ status' = [s \in Sessions |-> IF s \in S THEN "live" ELSE status[s]]
             /\ snapshot' = [snapshot EXCEPT ![f] = found]
             /\ countChangePending' = (countChangePending \/ found = <<>>)
             /\ pc' = [pc EXCEPT ![f] = IF found = <<>> THEN "idle" ELSE "add"]
             /\ before' = IF found = <<>> THEN [before EXCEPT ![f] = EmptyMap] ELSE before
    /\ LockUse(f, {"unmappedSessions"}, {})
    /\ UNCHANGED <<eventDriven, keyOf, windowVars, linkVars, pulseVars, finderVars, engineVars, vol, sessionEventChan, m, configVars, sliderVars,
                   serialVars, current, removedHandled>>

\* one iteration of getAndAddSessions' loop, and its end after the last one
addFound(f) ==
    /\ pc[f] = "add"
    /\ \E win \in WindowResults :
          LET added == AddTracked([m |-> m, unmapped |-> unmappedSessions],
                                  Head(snapshot[f]), SliderMapping, win)
          IN /\ m' = added.m
             /\ unmappedSessions' = added.unmapped
    /\ sessions' = Realias(sessions, m, m')
    /\ snapshot' = [snapshot EXCEPT ![f] = Tail(@)]
    /\ countChangePending' = (countChangePending \/ snapshot'[f] = <<>>)
    /\ pc' = [pc EXCEPT ![f] = IF snapshot'[f] = <<>> THEN "idle" ELSE "add"]
    /\ before' = IF snapshot'[f] = <<>> THEN [before EXCEPT ![f] = EmptyMap] ELSE before
    /\ LockUse(f, IF unmappedSessions' # unmappedSessions
                   THEN {"unmappedSessions"} ELSE {}, {})
    /\ UNCHANGED <<eventDriven, keyOf, windowVars, linkVars, pulseVars, finderVars, engineVars, backendVars, sinceRefresh, configVars, serialVars,
                   event, eventTargets, targets, resolvedTargets, targetFound,
                   adjustmentFailed, calls, current, removedHandled>>

(***************************************************************************)
(* Configuration reload, the tray and the clock                            *)
(***************************************************************************)
\* CanonicalConfig.Load after a change of the file, and onConfigReloaded
\* reaching the send to the sessionMap's channel (subscribed in polling mode only)
Load(mapping) ==
    /\ ~reloadPending
    /\ mapping # SliderMapping
    /\ SliderMapping' = mapping
    /\ reloadPending' = ~eventDriven
    /\ UNCHANGED <<eventDriven, keyOf, windowVars, linkVars, pulseVars, lockUse, finderVars, engineVars, InvertSliders, NoiseReductionLevel, backendVars, dirVars,
                   sliderVars, serialVars, pc, snapshot, current,
                   before, removedHandled>>

\* setupOnConfigReload: the receive of the reload signal, and refreshSessions(true)
\* up to the cooldown test
onConfigReload ==
    /\ pc["reload"] = "idle"
    /\ reloadPending
    /\ reloadPending' = FALSE
    /\ pc' = [pc EXCEPT !["reload"] =
                IF refreshRuns(TRUE, sinceRefresh) THEN "clear" ELSE "idle"]
    /\ LockUse("reload", {}, {})
    /\ UNCHANGED <<eventDriven, keyOf, windowVars, linkVars, pulseVars, finderVars, engineVars, SliderMapping, InvertSliders, NoiseReductionLevel,
                   backendVars, dirVars, sliderVars, serialVars, snapshot, current,
                   before, removedHandled>>

\* the tray: a session count notification is received and getSessionCount read
readSessionCount ==
    /\ countChangePending
    /\ countChangePending' = FALSE
    /\ UNCHANGED <<eventDriven, keyOf, windowVars, linkVars, pulseVars, lockUse, finderVars, engineVars, backendVars, m, unmappedSessions, sinceRefresh,
                   configVars, sliderVars, serialVars, pc, snapshot, current,
                   before, removedHandled>>

\* time passes until the refresh cooldown is over
Tick ==
    /\ sinceRefresh < minTimeBetweenSessionRefreshes
    /\ sinceRefresh' = minTimeBetweenSessionRefreshes
    /\ UNCHANGED <<eventDriven, keyOf, windowVars, linkVars, pulseVars, lockUse, finderVars, engineVars, backendVars, m, unmappedSessions, countChangePending, configVars, sliderVars, serialVars, pc, snapshot, current, before,
                   removedHandled>>

(***************************************************************************)
(* The directory and routing engine under every interleaving               *)
(***************************************************************************)
Next ==
    \/ \E s \in Sessions : finderAddSession(s)
    \/ \E s \in Sessions : finderRemoveSession(s)
    \/ handleSessionAdded
    \/ trackUnmapped
    \/ handleSessionRemoved
    \/ untrackUnmapped
    \/ \E id \in SliderIDs : \E value \in EventValues : sliderMoved(id, value)
    \/ resolve
    \/ lookup
    \/ adjust(BOOLEAN, FALSE)
    \/ post
    \/ \E f \in RefreshFlows : clear(f)
    \/ \E f \in RefreshFlows : getAllSessions(f)
    \/ \E f \in RefreshFlows : addFound(f)
    \/ \E mapping \in Configs : Load(mapping)
    \/ onConfigReload
    \/ readSessionCount
    \/ Tick

Spec == Init /\ [][Next]_vars

(***************************************************************************)
(* End to end: a line from the serial link to the SetVolume calls          *)
(***************************************************************************)
\* slider 0 -> firefox.exe, slider 3 -> master; one session under each key,
\* its volume differing from what the line will ask for; no line read yet
InitE2E ==
    /\ InitCommon
    /\ InitRunning
    /\ NoiseReductionLevel \in NoiseLevels
    /\ InvertSliders = FALSE
    /\ sliderMoveConsumers = <<"sessionMap">>
    /\ eventDriven \in BOOLEAN
    /\ keyOf = KeysFrom(<<FirefoxExe, masterSessionName>>)
    /\ SliderMapping = ConfigEndToEnd
    /\ status = [s \in Sessions |-> IF s \in {1, 2} THEN "live" ELSE "unborn"]
    /\ vol \in [Sessions -> Volumes]
    /\ vol[1] # NormalizeScalar(Atoi(<<"5","1","2">>))
    /\ vol[2] # NormalizeScalar(MaxRaw)
    /\ \E win \in WindowResults :
          /\ m = getAndAddSessions(<<1, 2>>, SliderMapping, win).m
          /\ unmappedSessions = getAndAddSessions(<<1, 2>>, SliderMapping, win).unmapped
    /\ sinceRefresh \in {0, minTimeBetweenSessionRefreshes}
    /\ countChangePending \in BOOLEAN

\* SerialIO.handleLine up to the delivery of the move events
readLine(line) ==
    /\ moveEvents = <<>>
    /\ linesRead < MaxLines
    /\ LET handled == handleLine(line, lastKnownNumSliders, currentSliderValues,
                                 InvertSliders, NoiseReductionLevel)
       IN /\ lastKnownNumSliders' = handled.num
          /\ currentSliderValues' = handled.values
          /\ moveEvents' = handled.events
          /\ lineEvents' = handled.events
    /\ received' = NoneReceived
    /\ linesRead' = linesRead + 1
    /\ lastLines' = <<lastLines[2], line>>
    /\ UNCHANGED <<sliderMoveConsumers, consumerIdx>>
    /\ UNCHANGED <<eventDriven, keyOf, windowVars, linkVars, pulseVars, lockUse, finderVars, engineVars, backendVars, dirVars, configVars, sliderVars, pc, unsetPending,
                   snapshot, current, before, removedHandled>>

\* the delivery loop of handleLine: the consumer being served receives the
\* next move event
sendMoveEvent ==
    LET next == afterSend(consumerIdx, moveEvents, lineEvents, Len(sliderMoveConsumers))
    IN /\ received' = [received EXCEPT ![sliderMoveConsumers[consumerIdx]] =
                                          Append(@, Head(moveEvents))]
       /\ consumerIdx' = next.consumer
       /\ moveEvents' = next.events
       /\ UNCHANGED <<sliderMoveConsumers, lineEvents>>

\* the delivery loop of handleLine: the next move event goes to the sessionMap,
\* whose channel is unbuffered
deliver ==
    /\ moveEvents # <<>>
    /\ sliderMoveConsumers[consumerIdx] = "sessionMap"
    /\ StartHandling(Head(moveEvents).SliderID, Head(moveEvents).PercentValue)
    /\ sendMoveEvent
    /\ LockUse("slider", {}, {})
    /\ UNCHANGED <<eventDriven, keyOf, windowVars, linkVars, pulseVars, finderVars, engineVars, backendVars, dirVars, configVars, lastKnownNumSliders,
                   currentSliderValues, linesRead, unsetPending, lastLines, calls, snapshot,
                   current, before,
                   removedHandled>>

NextE2E ==
    \/ readLine(EndToEndLine)
    \/ deliver
    \/ resolve
    \/ lookup
    \/ adjust({TRUE}, TRUE)
    \/ post
    \/ readSessionCount

SpecE2E == InitE2E /\ [][NextE2E]_vars

(***************************************************************************)
(* Routing: slider move events on a populated directory, every Session     *)
(* call recorded, SetVolume failing or not                                 *)
(***************************************************************************)
\* every session is live and in the directory, at any volume
InitRouting ==
    /\ InitCommon
    /\ InitRunning
    /\ NoiseReductionLevel = "default"
    /\ InvertSliders = FALSE
    /\ sliderMoveConsumers = <<"sessionMap">>
    /\ eventDriven \in BOOLEAN
    /\ keyOf \in { KeysFrom(table) : table \in KeyTables }
    /\ SliderMapping \in Configs \cup {ConfigRepeated}
    /\ status = [s \in Sessions |-> "live"]
    /\ vol \in [Sessions -> Volumes]
    /\ \E found \in Orderings(Sessions) : \E win \in WindowResults :
          /\ m = getAndAddSessions(found, SliderMapping, win).m
          /\ unmappedSessions = getAndAddSessions(found, SliderMapping, win).unmapped
    /\ sinceRefresh \in {0, minTimeBetweenSessionRefreshes}
    /\ countChangePending = FALSE

NextRouting ==
    \/ \E id \in SliderIDs : \E value \in EventValues : sliderMoved(id, value)
    \/ resolve
    \/ lookup
    \/ adjust(BOOLEAN, TRUE)
    \/ post
    \/ \E f \in RefreshFlows : clear(f)
    \/ \E f \in RefreshFlows : getAllSessions(f)
    \/ \E f \in RefreshFlows : addFound(f)
    \/ readSessionCount
    \/ Tick

SpecRouting == InitRouting /\ [][NextRouting]_vars

\* an event-driven sessionMap whose sessions end while sliders of any value
\* move; every SetVolume succeeds and the volumes are tracked
InitVolumes ==
    /\ InitRouting
    /\ eventDriven
    /\ SliderMapping \in Configs

NextVolumes ==
    \/ \E s \in Sessions : finderRemoveSession(s)
    \/ handleSessionRemoved
    \/ untrackUnmapped
    \/ \E id \in SliderIDs : \E value \in Volumes : sliderMoved(id, value)
    \/ resolve
    \/ lookup
    \/ adjust({TRUE}, TRUE)
    \/ post

SpecVolumes == InitVolumes /\ [][NextVolumes]_vars

(***************************************************************************)
(* The frame decoder: lines from the serial link, the tray as subscriber,  *)
(* and reloads of the configuration                                         *)
(***************************************************************************)
InitDecoder ==
    /\ InitCommon
    /\ InitRunning
    /\ NoiseReductionLevel \in NoiseLevels
    /\ InvertSliders \in BOOLEAN
    /\ sliderMoveConsumers = <<"tray">>
    /\ eventDriven = TRUE
    /\ keyOf = KeysFrom(<<FirefoxExe, masterSessionName>>)
    /\ SliderMapping = ConfigEndToEnd
    /\ status = [s \in Sessions |-> "unborn"]
    /\ vol = [s \in Sessions |-> 0]
    /\ m = EmptyMap
    /\ unmappedSessions = <<>>
    /\ sinceRefresh = SinceZeroTime
    /\ countChangePending = FALSE

\* the tray's goroutine receives the next move event of handleLine's delivery loop
traySliderMoved ==
    /\ moveEvents # <<>>
    /\ sliderMoveConsumers[consumerIdx] = "tray"
    /\ sendMoveEvent
    /\ UNCHANGED <<eventDriven, keyOf, windowVars, linkVars, pulseVars, lockUse, finderVars, engineVars, backendVars, dirVars, configVars, sliderVars, pc,
                   lastKnownNumSliders, currentSliderValues, linesRead, unsetPending,
                   lastLines, snapshot, current, before, removedHandled>>

\* a reload of the configuration with other decoding settings; the SerialIO is
\* notified
LoadDecoding(invert, level) ==
    /\ ~unsetPending
    /\ <<invert, level>> # <<InvertSliders, NoiseReductionLevel>>
    /\ InvertSliders' = invert
    /\ NoiseReductionLevel' = level
    /\ unsetPending' = TRUE
    /\ lastLines' = NoLines
    /\ UNCHANGED <<eventDriven, keyOf, windowVars, linkVars, pulseVars, lockUse, finderVars, engineVars, backendVars, dirVars, SliderMapping, reloadPending,
                   sliderVars, pc, lastKnownNumSliders, currentSliderValues, moveEvents,
                   linesRead, fanVars, snapshot, current, before, removedHandled>>

\* the delayed step of setupOnConfigReload, were the slider count left alone
unsetSliderCountKept ==
    /\ unsetPending
    /\ unsetPending' = FALSE
    /\ lastLines' = NoLines
    /\ UNCHANGED <<eventDriven, keyOf, windowVars, linkVars, pulseVars, lockUse, finderVars, engineVars, backendVars,
                   dirVars, configVars, sliderVars, pc, lastKnownNumSliders,
                   currentSliderValues, moveEvents, linesRead, fanVars, snapshot, current,
                   before, removedHandled>>

\* SerialIO.setupOnConfigReload: some time after the reload the slider count
\* is unset
unsetSliderCount ==
    /\ unsetPending
    /\ unsetPending' = FALSE
    /\ lastKnownNumSliders' = 0
    /\ lastLines' = NoLines
    /\ UNCHANGED <<eventDriven, keyOf, windowVars, linkVars, pulseVars, lockUse, finderVars, engineVars, backendVars, dirVars, configVars, sliderVars, pc,
                   currentSliderValues, moveEvents, linesRead, fanVars, snapshot, current,
                   before, removedHandled>>

NextDecoder ==
    \/ \E line \in DecoderLines : readLine(line)
    \/ traySliderMoved
    \/ \E invert \in BOOLEAN : \E level \in NoiseLevels : LoadDecoding(invert, level)
    \/ unsetSliderCount

SpecDecoder == InitDecoder /\ [][NextDecoder]_vars

(***************************************************************************)
(* Fan-out: the lines of the serial link delivered to the sessionMap and,  *)
(* when there is a tray, to the tray                                       *)
(***************************************************************************)
\* lines of five and of three sliders
FanOutLines == { EndToEndLine, FormatLine(<<500, 0, MaxRaw>>), FormatLine(<<503, 2, 1015>>) }

\* sessionMap.initialize subscribes before the tray does, and both before
\* SerialIO.Start; one session under each key of the mapping
InitFanOut ==
    /\ InitCommon
    /\ InitRunning
    /\ NoiseReductionLevel = "default"
    /\ InvertSliders = FALSE
    /\ sliderMoveConsumers \in { <<"sessionMap">>, <<"sessionMap", "tray">> }
    /\ eventDriven \in BOOLEAN
    /\ keyOf = KeysFrom(<<FirefoxExe, masterSessionName>>)
    /\ SliderMapping = ConfigEndToEnd
    /\ status = [s \in Sessions |-> IF s \in {1, 2} THEN "live" ELSE "unborn"]
    /\ vol = [s \in Sessions |-> 0]
    /\ \E win \in WindowResults :
          /\ m = getAndAddSessions(<<1, 2>>, SliderMapping, win).m
          /\ unmappedSessions = getAndAddSessions(<<1, 2>>, SliderMapping, win).unmapped
    /\ sinceRefresh = minTimeBetweenSessionRefreshes
    /\ countChangePending = TRUE

NextFanOut ==
    \/ \E line \in FanOutLines : readLine(line)
    \/ deliver
    \/ traySliderMoved
    \/ resolve
    \/ lookup
    \/ adjust({TRUE}, TRUE)
    \/ post
    \/ readSessionCount

SpecFanOut == InitFanOut /\ [][NextFanOut]_vars

(***************************************************************************)
(* The events of the finder, those of devices without master session       *)
(* included, and their handling by the sessionMap                          *)
(***************************************************************************)
InitEvents ==
    /\ Init
    /\ eventDriven

NextEvents ==
    \/ \E s \in Sessions : finderAddSession(s)
    \/ \E s \in Sessions : finderRemoveSession(s)
    \/ finderRemoveDeviceManager
    \/ handleSessionAdded
    \/ trackUnmapped
    \/ handleSessionRemoved
    \/ handleSessionRemovedNil
    \/ untrackUnmapped

SpecEvents == InitEvents /\ [][NextEvents]_vars

(***************************************************************************)
(* The targets of the current window: slider moves on a populated          *)
(* directory while the foreground window changes and time passes           *)
(***************************************************************************)
InitWindow ==
    /\ InitCommon
    /\ InitRunning
    /\ NoiseReductionLevel = "default"
    /\ InvertSliders = FALSE
    /\ sliderMoveConsumers = <<"sessionMap">>
    /\ eventDriven = TRUE
    /\ keyOf = KeysFrom(<<FirefoxExe, masterSessionName>>)
    /\ SliderMapping = ConfigWindow
    /\ status = [s \in Sessions |-> "live"]
    /\ vol = [s \in Sessions |-> 0]
    /\ \E found \in Orderings(Sessions) : \E win \in WindowResults :
          /\ m = getAndAddSessions(found, SliderMapping, win).m
          /\ unmappedSessions = getAndAddSessions(found, SliderMapping, win).unmapped
    /\ sinceRefresh = SinceZeroTime
    /\ countChangePending = FALSE

NextWindow ==
    \/ \E id \in SliderIDs : \E value \in EventValues : sliderMoved(id, value)
    \/ resolveWindowTarget
    \/ lookup
    \/ adjust({TRUE}, TRUE)
    \/ post
    \/ \E fg \in Foregrounds : foregroundChanges(fg)
    \/ windowCooldownOver

SpecWindow == InitWindow /\ [][NextWindow]_vars

(***************************************************************************)
(* Targets in any letter case: an event-driven directory filled by the     *)
(* events of the finder, under a configuration that keeps the case the     *)
(* user wrote                                                              *)
(***************************************************************************)
InitTargets ==
    /\ InitCommon
    /\ InitRunning
    /\ NoiseReductionLevel = "default"
    /\ InvertSliders = FALSE
    /\ sliderMoveConsumers = <<"sessionMap">>
    /\ eventDriven = TRUE
    /\ keyOf \in { KeysFrom(table) : table \in KeyTables }
    /\ SliderMapping \in TargetConfigs
    /\ status = [s \in Sessions |-> "unborn"]
    /\ vol = [s \in Sessions |-> 0]
    /\ m = EmptyMap
    /\ unmappedSessions = <<>>
    /\ sinceRefresh = SinceZeroTime
    /\ countChangePending = FALSE

NextTargets ==
    \/ \E s \in Sessions : finderAddSession(s)
    \/ handleSessionAdded
    \/ trackUnmapped
    \/ sessionMappedPanic
    \/ \E id \in SliderIDs : \E value \in EventValues : sliderMoved(id, value)
    \/ resolve
    \/ lookup
    \/ adjust({TRUE}, TRUE)
    \/ post

SpecTargets == InitTargets /\ [][NextTargets]_vars

(***************************************************************************)
(* The life of the engine: NewDeej, Initialize, run and stop, with the WCA *)
(* session finder, its worker and the callbacks of the audio devices       *)
(***************************************************************************)
\* what the engine and the session finder leave alone
coreVars == <<eventDriven, keyOf, windowVars, linkVars, pulseVars, lockUse, status, vol, dirVars, configVars, sliderVars, serialVars,
              pc, snapshot, current, before, removedHandled>>

\* the handles of the Sessions the session finder holds
LiveHandles ==
    ({ deviceManagers[d] : d \in DOMAIN deviceManagers }
        \cup { trackedSessions[id] : id \in DOMAIN trackedSessions }
        \cup { master[id] : id \in MasterIDs }) \ {0}

\* the handle of the Session created next: handles are numbered as created
FreeHandles == { h \in Handles : h \notin LiveHandles /\ releaseCalls[h] = 0 }
NewHandle == CHOOSE h \in FreeHandles : \A g \in FreeHandles : h <= g

\* emitSessionEvent for each of the events in turn
RECURSIVE emitAll(_, _)
emitAll(chan, events) ==
    IF events = <<>> THEN chan
    ELSE emitAll(emitSessionEvent(chan, Head(events)), Tail(events))

\* the events are handed to emitSessionEvent and the Sessions released
emitAndRelease(events, handles) ==
    /\ Len(emitted) + Len(events) <= MaxEmitted
    /\ sessionEventChan' = emitAll(sessionEventChan, events)
    /\ emitted' = emitted \o events
    /\ releaseCalls' = [h \in Handles |->
                           IF h \in handles THEN releaseCalls[h] + 1 ELSE releaseCalls[h]]

\* the callbacks of the audio devices reach the finder once its worker has
\* registered them and as long as the process lives
CallbacksArrive == worker = "ready" /\ engine # "exited"

\* sessionFinderWorker: the device enumerator cannot be initialized; the
\* error is kept in initErr and the worker returns
workerInitFails ==
    /\ worker = "init"
    /\ engine # "exited"
    /\ worker' = "failed"
    /\ UNCHANGED <<coreVars, sessionEventChan, engineVars, cancelled, deviceManagers,
                   trackedSessions, master, releaseCalls, enumeratorReleases, emitted,
                   liveAtRelease>>

\* sessionFinderWorker: the initialization is over, the worker waits for
\* its context to be cancelled
workerInitialized ==
    /\ worker = "init"
    /\ engine # "exited"
    /\ worker' = "ready"
    /\ UNCHANGED <<coreVars, sessionEventChan, engineVars, cancelled, deviceManagers,
                   trackedSessions, master, releaseCalls, enumeratorReleases, emitted,
                   liveAtRelease>>

\* createDeviceManager for a device without manager; the master session of
\* the device is announced when it could be created
wcaCreateDeviceManager(d, masterCreated) ==
    /\ CallbacksArrive
    /\ d \notin DOMAIN deviceManagers
    /\ masterCreated => FreeHandles # {}
    /\ LET h == IF masterCreated THEN NewHandle ELSE 0
       IN /\ deviceManagers' = [x \in DOMAIN deviceManagers \cup {d} |->
                                   IF x = d THEN h ELSE deviceManagers[x]]
          /\ emitAndRelease(
                IF masterCreated
                THEN << [Type |-> "Added", SessionID |-> <<"device", d>>, Session |-> h] >>
                ELSE <<>>, {})
    /\ UNCHANGED <<coreVars, engineVars, worker, cancelled, trackedSessions, master,
                   enumeratorReleases, liveAtRelease>>

\* addSessionFromControl: a session of a process on a device with a manager,
\* when enumerated or when created; one that is tracked already is left alone
wcaAddSessionFromControl(d) ==
    /\ CallbacksArrive
    /\ d \in DOMAIN deviceManagers
    /\ <<d, "firefox.exe">> \notin DOMAIN trackedSessions
    /\ FreeHandles # {}
    /\ trackedSessions' = [x \in DOMAIN trackedSessions \cup {<<d, "firefox.exe">>} |->
                             IF x = <<d, "firefox.exe">> THEN NewHandle
                             ELSE trackedSessions[x]]
    /\ emitAndRelease(<< [Type |-> "Added", SessionID |-> <<d, "firefox.exe">>,
                          Session |-> NewHandle] >>, {})
    /\ UNCHANGED <<coreVars, engineVars, worker, cancelled, deviceManagers, master,
                   enumeratorReleases, liveAtRelease>>

\* the Removed event of a tracked session
removedEvent(id) ==
    [Type |-> "Removed", SessionID |-> id, Session |-> trackedSessions[id]]

\* wcaSessionFinder.removeSession: the session expired or was disconnected;
\* nothing is done for a session that is not tracked
wcaRemoveSession(id) ==
    /\ CallbacksArrive
    /\ id \in DOMAIN trackedSessions
    /\ trackedSessions' = [x \in DOMAIN trackedSessions \ {id} |-> trackedSessions[x]]
    /\ emitAndRelease(<< removedEvent(id) >>, {trackedSessions[id]})
    /\ UNCHANGED <<coreVars, engineVars, worker, cancelled, deviceManagers, master,
                   enumeratorReleases, liveAtRelease>>

\* removeDeviceManager, from a callback of the device or from cleanup: the
\* sessions of the device are removed, then the removal of the device's
\* master session is announced and the master session, unless nil, released
wcaRemoveDeviceManager(d) ==
    /\ CallbacksArrive
    /\ d \in DOMAIN deviceManagers
    /\ LET ofDevice == { id \in DOMAIN trackedSessions : id[1] = d }
           sessionEvents == IF ofDevice = {} THEN <<>>
                            ELSE << removedEvent(<<d, "firefox.exe">>) >>
       IN /\ deviceManagers' = [x \in DOMAIN deviceManagers \ {d} |-> deviceManagers[x]]
          /\ trackedSessions' = [x \in DOMAIN trackedSessions \ ofDevice |->
                                    trackedSessions[x]]
          /\ emitAndRelease(
                sessionEvents \o << [Type |-> "Removed", SessionID |-> <<"device", d>>,
                                     Session |-> deviceManagers[d]] >>,
                ({ trackedSessions[id] : id \in ofDevice } \cup {deviceManagers[d]}) \ {0})
    /\ UNCHANGED <<coreVars, engineVars, worker, cancelled, master, enumeratorReleases,
                   liveAtRelease>>

\* refreshMasterOutput and refreshMasterInput, when the default device
\* changes: the old master session, if any, is announced as removed and
\* released; the new one is announced when it could be created
wcaRefreshMaster(id, created) ==
    /\ CallbacksArrive
    /\ created => FreeHandles # {}
    /\ (master[id] # 0 \/ created)
    /\ LET old == master[id]
           new == IF created THEN NewHandle ELSE 0
           removal == IF old = 0 THEN <<>>
                      ELSE << [Type |-> "Removed", SessionID |-> id, Session |-> old] >>
           addition == IF new = 0 THEN <<>>
                       ELSE << [Type |-> "Added", SessionID |-> id, Session |-> new] >>
       IN /\ master' = [master EXCEPT ![id] = new]
          /\ emitAndRelease(removal \o addition, {old} \ {0})
    /\ UNCHANGED <<coreVars, engineVars, worker, cancelled, deviceManagers,
                   trackedSessions, enumeratorReleases, liveAtRelease>>

\* wcaSessionFinder.cleanup, once the worker's context is cancelled: after
\* removeDeviceManager for every device, the device enumerator is released
wcaCleanup ==
    /\ CallbacksArrive
    /\ cancelled
    /\ DOMAIN deviceManagers = {}
    /\ enumeratorReleases' = enumeratorReleases + 1
    /\ worker' = "cleaned"
    /\ UNCHANGED <<coreVars, sessionEventChan, engineVars, cancelled, deviceManagers,
                   trackedSessions, master, releaseCalls, emitted, liveAtRelease>>

\* setupOnSessionEvents: the sessionMap takes the next event off the channel
receiveSessionEvent ==
    /\ loops["events"] = "running"
    /\ engine # "exited"
    /\ sessionEventChan # <<>>
    /\ sessionEventChan' = Tail(sessionEventChan)
    /\ UNCHANGED <<coreVars, engineVars, finderVars>>

\* Deej.Initialize: the sessionMap subscribes and starts its loops, and run
\* starts the serial link; an event-driven finder is not asked for its sessions
Initialize ==
    /\ engine = "created"
    /\ engine' = "running"
    /\ sliderMoveConsumers' = Append(sliderMoveConsumers, "sessionMap")
    /\ loops' = [l \in Loops |->
                    IF l \in {"slider", "events", "manager"} THEN "running" ELSE loops[l]]
    /\ UNCHANGED <<eventDriven, keyOf, windowVars, linkVars, pulseVars, lockUse, status, vol, dirVars, configVars, sliderVars, pc,
                   snapshot, current, before, removedHandled, lastKnownNumSliders,
                   currentSliderValues, moveEvents, linesRead, unsetPending, lastLines,
                   consumerIdx, lineEvents, received, sessionEventChan, finderVars,
                   stopChannel, port, errChannel>>

\* managerLoop: the connection is made and readLoop started
connect ==
    /\ loops["manager"] = "running"
    /\ engine # "exited"
    /\ port = "closed"
    /\ port' = "open"
    /\ loops' = [loops EXCEPT !["reader"] = "running"]
    /\ UNCHANGED <<coreVars, sessionEventChan, finderVars, engine, stopChannel, errChannel>>

\* readLoop: the read of a line fails, as it does once the port is closed;
\* the error goes to errChannel and readLoop returns
readError ==
    /\ loops["reader"] = "running"
    /\ engine # "exited"
    /\ errChannel = 0
    /\ errChannel' = 1
    /\ loops' = [loops EXCEPT !["reader"] = "returned"]
    /\ UNCHANGED <<coreVars, sessionEventChan, finderVars, engine, stopChannel, port>>

\* managerLoop: a read error is received, the port closed and, after a
\* while, the connection tried again
managerReadError ==
    /\ loops["manager"] = "running"
    /\ engine # "exited"
    /\ port = "open"
    /\ errChannel = 1
    /\ errChannel' = 0
    /\ port' = "closed"
    /\ UNCHANGED <<coreVars, sessionEventChan, finderVars, engine, stopChannel, loops>>

\* managerLoop: the stop signal is received, the port closed, and
\* managerLoop returns
managerStop ==
    /\ loops["manager"] = "running"
    /\ engine # "exited"
    /\ stopChannel = "closed"
    /\ port' = "closed"
    /\ loops' = [loops EXCEPT !["manager"] = "returned"]
    /\ UNCHANGED <<coreVars, sessionEventChan, finderVars, engine, stopChannel, errChannel>>

\* Deej.stop up to SerialIO.Stop: the stop channel is closed
stop ==
    /\ engine = "running"
    /\ engine' = "stopping"
    /\ stopChannel' = "closed"
    /\ UNCHANGED <<coreVars, sessionEventChan, finderVars, port, errChannel, loops>>

\* SerialIO.Stop: managerLoop and readLoop have returned, the wait is over
serialStopped ==
    /\ engine = "stopping"
    /\ loops["manager"] # "running"
    /\ loops["reader"] # "running"
    /\ engine' = "releasing"
    /\ UNCHANGED <<coreVars, sessionEventChan, finderVars, stopChannel, port, errChannel,
                   loops>>

\* sessionMap.release, wcaSessionFinder.Release: the worker's context is
\* cancelled and the device enumerator, unless nil, released
wcaRelease ==
    /\ engine = "releasing"
    /\ engine' = "released"
    /\ cancelled' = TRUE
    /\ enumeratorReleases' =
          IF worker \in {"ready", "cleaned"} THEN enumeratorReleases + 1
          ELSE enumeratorReleases
    /\ liveAtRelease' = LiveHandles
    /\ UNCHANGED <<coreVars, sessionEventChan, worker, deviceManagers, trackedSessions,
                   master, releaseCalls, emitted, stopChannel, port, errChannel, loops>>

\* Deej.run: os.Exit once stop has returned; every goroutine ends with the process
exit ==
    /\ engine = "released"
    /\ engine' = "exited"
    /\ UNCHANGED <<coreVars, sessionEventChan, finderVars, stopChannel, port, errChannel,
                   loops>>

\* NewDeej has returned: the worker of the session finder is started, the
\* SerialIO waits for reloads of the configuration, nothing else runs
InitLifecycle ==
    /\ InitCommon
    /\ NoiseReductionLevel = "default"
    /\ InvertSliders = FALSE
    /\ sliderMoveConsumers = <<>>
    /\ eventDriven = TRUE
    /\ keyOf = KeysFrom(<<FirefoxExe, masterSessionName>>)
    /\ SliderMapping = ConfigEndToEnd
    /\ status = [s \in Sessions |-> "unborn"]
    /\ vol = [s \in Sessions |-> 0]
    /\ m = EmptyMap
    /\ unmappedSessions = <<>>
    /\ sinceRefresh = SinceZeroTime
    /\ countChangePending = FALSE
    /\ worker = "init"
    /\ engine = "created"
    /\ port = "closed"
    /\ loops = [l \in Loops |-> IF l = "reload" THEN "running" ELSE "unstarted"]

NextLifecycle ==
    \/ workerInitFails
    \/ workerInitialized
    \/ \E d \in Devices : \E masterCreated \in BOOLEAN : wcaCreateDeviceManager(d, masterCreated)
    \/ \E d \in Devices : wcaAddSessionFromControl(d)
    \/ \E d \in Devices : wcaRemoveSession(<<d, "firefox.exe">>)
    \/ \E d \in Devices : wcaRemoveDeviceManager(d)
    \/ \E id \in MasterIDs : \E created \in BOOLEAN : wcaRefreshMaster(id, created)
    \/ wcaCleanup
    \/ receiveSessionEvent
    \/ Initialize
    \/ connect
    \/ readError
    \/ managerReadError
    \/ managerStop
    \/ stop
    \/ serialStopped
    \/ wcaRelease
    \/ exit

SpecLifecycle == InitLifecycle /\ [][NextLifecycle]_vars

\* the scheduler runs every goroutine that is ready: a select with the stop
\* channel closed is taken, a read on a closed port fails, the events of the
\* channel are received, and stop, Release, cleanup and os.Exit go on to
\* their end; when the stop signal is raised is up to the user
FairLifecycle ==
    /\ SpecLifecycle
    /\ WF_vars(managerStop)
    /\ WF_vars(port = "closed" /\ readError)
    /\ WF_vars(receiveSessionEvent)
    /\ WF_vars(serialStopped)
    /\ WF_vars(wcaRelease)
    /\ WF_vars(exit)

(***************************************************************************)
(* The serial link: Start, Stop, managerLoop, readLoop and the restart on  *)
(* a reload of the connection parameters                                   *)
(***************************************************************************)
\* every variable but those of the link and the stage of the engine
restVars == <<eventDriven, keyOf, windowVars, pulseVars, lockUse, status, vol, dirVars, configVars,
              sliderVars, serialVars, pc, snapshot, current, before, removedHandled,
              sessionEventChan, finderVars, stopChannel, port, errChannel, loops>>

\* a receive from SerialIO.stopChannel is ready: the channel is closed
\* (a receive from a nil channel never is)
StopSignalled ==
    stopChannels # <<>> /\ stopChannels[Len(stopChannels)] = "closed"

\* the counter of SerialIO.wg: managerLoop and readLoop add to it as they
\* begin and are done as they return
wgCounter ==
    Cardinality({ i \in DOMAIN managerLoops : managerLoops[i] \notin {"spawned", "returned"} })
    + Cardinality({ k \in DOMAIN readLoops : readLoops[k] \notin {"none", "spawned", "returned"} })

\* closePort up to the send of the state change event: nothing to close
\* when port is nil; the port is kept when its Close fails (closes is
\* FALSE); otherwise port is nil and the consumers are to be sent false
closePort(ports, current_, closes) ==
    IF current_ = 0 \/ ~closes THEN [ports |-> ports, port |-> current_, sends |-> FALSE]
    ELSE [ports |-> [ports EXCEPT ![current_] = "closed"], port |-> 0, sends |-> TRUE]

\* SerialIO.Start: a new stop channel, and managerLoop in a new goroutine
Start ==
    /\ Len(stopChannels) < MaxStarts
    /\ stopChannels' = Append(stopChannels, "open")
    /\ managerLoops' = Append(managerLoops, "spawned")

\* SerialIO.Stop, the close of the stop channel: it panics when the channel
\* is nil or closed already
StopCloses ==
    IF stopChannels # <<>> /\ stopChannels[Len(stopChannels)] = "open"
    THEN /\ stopChannels' = [stopChannels EXCEPT ![Len(stopChannels)] = "closed"]
         /\ UNCHANGED closePanic
    ELSE /\ closePanic' = TRUE
         /\ UNCHANGED stopChannels

\* Deej.run: the watcher of the config file is started
runWatches ==
    /\ ~closePanic
    /\ engine = "created"
    /\ engine' = "watching"
    /\ UNCHANGED <<restVars, linkVars>>

\* Deej.run: SerialIO.Start
runStarts ==
    /\ ~closePanic
    /\ engine = "watching"
    /\ engine' = "running"
    /\ Start
    /\ UNCHANGED <<restVars, openedPorts, sioPort, errChannelBuf, readLoops, notified,
                   restartPc, closePanic>>

\* managerLoop begins: wg.Add(1)
managerBegins(i) ==
    /\ ~closePanic
    /\ managerLoops[i] = "spawned"
    /\ managerLoops' = [managerLoops EXCEPT ![i] = "connect"]
    /\ UNCHANGED <<restVars, engine, stopChannels, openedPorts, sioPort, errChannelBuf,
                   readLoops, notified, restartPc, closePanic>>

\* managerLoop calls connect: refused while a port is held; otherwise the
\* port is opened when the device accepts the connection
managerConnects(i, accepts) ==
    /\ ~closePanic
    /\ managerLoops[i] = "connect"
    /\ IF sioPort = 0 /\ accepts /\ Len(openedPorts) < MaxConnects
       THEN /\ openedPorts' = Append(openedPorts, "open")
            /\ sioPort' = Len(openedPorts) + 1
            /\ managerLoops' = [managerLoops EXCEPT ![i] = "connected"]
       ELSE /\ managerLoops' = [managerLoops EXCEPT ![i] = "retry"]
            /\ UNCHANGED <<openedPorts, sioPort>>
    /\ UNCHANGED <<restVars, engine, stopChannels, errChannelBuf, readLoops, notified,
                   restartPc, closePanic>>

\* managerLoop after a failed connect: it returns on the stop signal and
\* tries again after two seconds otherwise
managerRetries(i) ==
    /\ ~closePanic
    /\ managerLoops[i] = "retry"
    /\ managerLoops' = [managerLoops EXCEPT ![i] =
                           IF StopSignalled THEN "returned" ELSE "connect"]
    /\ UNCHANGED <<restVars, engine, stopChannels, openedPorts, sioPort, errChannelBuf,
                   readLoops, notified, restartPc, closePanic>>

\* managerLoop after connect: the consumers are sent true and readLoop is
\* started in a new goroutine
managerConnected(i) ==
    /\ ~closePanic
    /\ managerLoops[i] = "connected"
    /\ notified' = Append(notified, TRUE)
    /\ readLoops' = [readLoops EXCEPT ![sioPort] = "spawned"]
    /\ managerLoops' = [managerLoops EXCEPT ![i] = "select"]
    /\ UNCHANGED <<restVars, engine, stopChannels, openedPorts, sioPort, errChannelBuf,
                   restartPc, closePanic>>

\* readLoop begins: wg.Add(1)
readerBegins(k) ==
    /\ ~closePanic
    /\ readLoops[k] = "spawned"
    /\ readLoops' = [readLoops EXCEPT ![k] = "reading"]
    /\ UNCHANGED <<restVars, engine, stopChannels, openedPorts, sioPort, errChannelBuf,
                   managerLoops, notified, restartPc, closePanic>>

\* readLoop: a read fails, as it does once the port is closed and as it can
\* at any time; the error is sent to errChannel, which has room for one,
\* and readLoop returns
readerFails(k) ==
    /\ ~closePanic
    /\ readLoops[k] = "reading"
    /\ Len(errChannelBuf) < 1
    /\ errChannelBuf' = Append(errChannelBuf, k)
    /\ readLoops' = [readLoops EXCEPT ![k] = "returned"]
    /\ UNCHANGED <<restVars, engine, stopChannels, openedPorts, sioPort, managerLoops,
                   notified, restartPc, closePanic>>

\* managerLoop receives from errChannel: closePort, up to the send of the
\* state change event
managerReceivesError(i, closes) ==
    /\ ~closePanic
    /\ managerLoops[i] = "select"
    /\ errChannelBuf # <<>>
    /\ errChannelBuf' = Tail(errChannelBuf)
    /\ LET closed == closePort(openedPorts, sioPort, closes)
       IN /\ openedPorts' = closed.ports
          /\ sioPort' = closed.port
          /\ managerLoops' = [managerLoops EXCEPT ![i] =
                                 IF closed.sends THEN "closedOnError" ELSE "connect"]
    /\ UNCHANGED <<restVars, engine, stopChannels, readLoops, notified, restartPc,
                   closePanic>>

\* managerLoop receives the stop signal: closePort, up to the send of the
\* state change event
managerStopSignal(i, closes) ==
    /\ ~closePanic
    /\ managerLoops[i] = "select"
    /\ StopSignalled
    /\ LET closed == closePort(openedPorts, sioPort, closes)
       IN /\ openedPorts' = closed.ports
          /\ sioPort' = closed.port
          /\ managerLoops' = [managerLoops EXCEPT ![i] =
                                 IF closed.sends THEN "closedOnStop" ELSE "returned"]
    /\ UNCHANGED <<restVars, engine, stopChannels, errChannelBuf, readLoops, notified,
                   restartPc, closePanic>>

\* closePort, its end: the consumers are sent false; managerLoop then
\* returns, or connects again after two seconds
managerClosed(i) ==
    /\ ~closePanic
    /\ managerLoops[i] \in {"closedOnError", "closedOnStop"}
    /\ notified' = Append(notified, FALSE)
    /\ managerLoops' = [managerLoops EXCEPT ![i] =
                           IF managerLoops[i] = "closedOnStop" THEN "returned"
                           ELSE "connect"]
    /\ UNCHANGED <<restVars, engine, stopChannels, openedPorts, sioPort, errChannelBuf,
                   readLoops, restartPc, closePanic>>

\* setupOnConfigReload: the configuration is reloaded with other connection
\* parameters; Stop closes the stop channel
reloadStops ==
    /\ ~closePanic
    /\ engine \in {"watching", "running"}
    /\ restartPc = "idle"
    /\ StopCloses
    /\ restartPc' = "waiting"
    /\ UNCHANGED <<restVars, engine, openedPorts, sioPort, errChannelBuf, managerLoops,
                   readLoops, notified>>

\* setupOnConfigReload: wg.Wait of Stop is over
reloadStopped ==
    /\ ~closePanic
    /\ restartPc = "waiting"
    /\ wgCounter = 0
    /\ restartPc' = "pause"
    /\ UNCHANGED <<restVars, engine, stopChannels, openedPorts, sioPort, errChannelBuf,
                   managerLoops, readLoops, notified, closePanic>>

\* setupOnConfigReload: Start, two seconds after Stop has returned
reloadStarts ==
    /\ ~closePanic
    /\ restartPc = "pause"
    /\ Start
    /\ restartPc' = "idle"
    /\ UNCHANGED <<restVars, engine, openedPorts, sioPort, errChannelBuf, readLoops,
                   notified, closePanic>>

\* Deej.stop: the watcher is stopped; SerialIO.Stop closes the stop channel
stopCloses ==
    /\ ~closePanic
    /\ engine = "running"
    /\ engine' = "stopping"
    /\ StopCloses
    /\ UNCHANGED <<restVars, openedPorts, sioPort, errChannelBuf, managerLoops, readLoops,
                   notified, restartPc>>

\* Deej.stop: wg.Wait of SerialIO.Stop is over
stopWaited ==
    /\ ~closePanic
    /\ engine = "stopping"
    /\ wgCounter = 0
    /\ engine' = "releasing"
    /\ UNCHANGED <<restVars, linkVars>>

InitLink == InitLifecycle

NextLink ==
    \/ runWatches
    \/ runStarts
    \/ \E i \in DOMAIN managerLoops : managerBegins(i)
    \/ \E i \in DOMAIN managerLoops : \E accepts \in BOOLEAN : managerConnects(i, accepts)
    \/ \E i \in DOMAIN managerLoops : managerRetries(i)
    \/ \E i \in DOMAIN managerLoops : managerConnected(i)
    \/ \E k \in DOMAIN readLoops : readerBegins(k)
    \/ \E k \in DOMAIN readLoops : readerFails(k)
    \/ \E i \in DOMAIN managerLoops : \E closes \in BOOLEAN : managerReceivesError(i, closes)
    \/ \E i \in DOMAIN managerLoops : \E closes \in BOOLEAN : managerStopSignal(i, closes)
    \/ \E i \in DOMAIN managerLoops : managerClosed(i)
    \/ reloadStops
    \/ reloadStopped
    \/ reloadStarts
    \/ stopCloses
    \/ stopWaited

SpecLink == InitLink /\ [][NextLink]_vars

(***************************************************************************)
(* The PulseAudio session finder: refreshMaster                            *)
(***************************************************************************)
\* the handles of the master sessions the PulseAudio session finder
\* creates: two as it connects and two per refresh
PulseHandles == 1..(2 * (MaxRefreshes + 1))
Masters == <<"sink", "source">>

\* the size of paSessionFinder.sessionEvents
sessionEventChanSize == 100

\* the key of a master session: master for the sink, mic for the source
paMasterKey(which) ==
    IF which = "sink" THEN masterSessionName ELSE inputSessionName

\* paSessionFinder.emitEvent: non-blocking send, the event is dropped when
\* the channel is full
emitEvent(chan, ev) ==
    IF Len(chan) < sessionEventChanSize THEN Append(chan, ev) ELSE chan

\* every variable the session finder of PulseAudio leaves alone
pulseRest == <<eventDriven, windowVars, linkVars, lockUse, vol, dirVars, configVars,
               sliderVars, serialVars, pc, snapshot, current, before, removedHandled,
               engineVars, worker, cancelled, deviceManagers, trackedSessions, master,
               releaseCalls, enumeratorReleases, liveAtRelease>>

\* where refreshMaster goes on after one master: the source after the
\* sink, the end after the source
NextMaster(refresh) ==
    IF refresh.which = "sink"
    THEN [pc |-> "swap", which |-> "source", old |-> 0]
    ELSE [pc |-> "done", which |-> "source", old |-> 0]

\* onPulseEvent on a server event: refreshMaster in a new goroutine
onPulseEvent(r) ==
    /\ paFinder.callback
    /\ paRefresh[r].pc = "idle"
    /\ paRefresh' = [paRefresh EXCEPT ![r] = [pc |-> "swap", which |-> "sink", old |-> 0]]
    /\ UNCHANGED <<pulseRest, keyOf, status, sessionEventChan, emitted, paFinder>>

\* refreshMasterSink, refreshMasterSource: the request to the server and,
\* unless it fails, the swap of the field for a new master session, made
\* holding the lock
refreshSwaps(r, replied) ==
    /\ paRefresh[r].pc = "swap"
    /\ IF replied
       THEN \E new \in PulseHandles :
               /\ status[new] = "unborn"
               /\ \A h \in PulseHandles : h < new => status[h] # "unborn"
               /\ status' = [status EXCEPT ![new] = "live"]
               /\ keyOf' = [keyOf EXCEPT ![new] = paMasterKey(paRefresh[r].which)]
               /\ paFinder' = [paFinder EXCEPT ![paRefresh[r].which] = new]
               /\ paRefresh' = [paRefresh EXCEPT ![r] =
                                   [pc |-> IF paFinder[@.which] # 0 THEN "removed" ELSE "added",
                                    which |-> @.which,
                                    old |-> paFinder[@.which]]]
       ELSE /\ paRefresh' = [paRefresh EXCEPT ![r] = NextMaster(@)]
            /\ UNCHANGED <<status, keyOf, paFinder>>
    /\ UNCHANGED <<pulseRest, sessionEventChan, emitted>>

\* refreshMasterSink, refreshMasterSource: the Removed event of the old
\* master session, and its Release
refreshRemoved(r) ==
    /\ paRefresh[r].pc = "removed"
    /\ LET ev == [Type |-> "Removed", Session |-> paRefresh[r].old]
       IN /\ sessionEventChan' = emitEvent(sessionEventChan, ev)
          /\ emitted' = Append(emitted, ev)
    /\ status' = [status EXCEPT ![paRefresh[r].old] = "released"]
    /\ paRefresh' = [paRefresh EXCEPT ![r].pc = "added"]
    /\ UNCHANGED <<pulseRest, keyOf, paFinder>>

\* refreshMasterSink, refreshMasterSource: the Added event, of the session
\* the field holds by now
refreshAdded(r) ==
    /\ paRefresh[r].pc = "added"
    /\ LET ev == [Type |-> "Added", Session |-> paFinder[paRefresh[r].which]]
       IN /\ sessionEventChan' = emitEvent(sessionEventChan, ev)
          /\ emitted' = Append(emitted, ev)
    /\ paRefresh' = [paRefresh EXCEPT ![r] = NextMaster(@)]
    /\ UNCHANGED <<pulseRest, keyOf, status, paFinder>>

\* newSessionFinder is about to connect; the sessionMap, its map empty,
\* will listen to the events
InitPulse ==
    /\ InitCommon
    /\ InitRunning
    /\ NoiseReductionLevel = "default"
    /\ InvertSliders = FALSE
    /\ sliderMoveConsumers = <<"sessionMap">>
    /\ eventDriven = TRUE
    /\ SliderMapping = ConfigMaster
    /\ vol = [s \in Sessions |-> 0]
    /\ m = EmptyMap
    /\ unmappedSessions = <<>>
    /\ sinceRefresh = SinceZeroTime
    /\ countChangePending = FALSE
    /\ keyOf = [h \in PulseHandles |-> masterSessionName]
    /\ status = [h \in PulseHandles |-> "unborn"]

\* connect, as newSessionFinder calls it: refreshMaster makes the master
\* sessions the server replies for and announces them, and then the
\* callback for the events of the server is set
paConnects(sinkReplied, sourceReplied) ==
    /\ ~paFinder.callback
    /\ LET sink == IF sinkReplied THEN 1 ELSE 0
           source == IF ~sourceReplied THEN 0 ELSE sink + 1
           events == (IF sink = 0 THEN <<>>
                      ELSE <<[Type |-> "Added", Session |-> sink]>>)
                     \o (IF source = 0 THEN <<>>
                         ELSE <<[Type |-> "Added", Session |-> source]>>)
       IN /\ paFinder' = [sink |-> sink, source |-> source, callback |-> TRUE]
          /\ status' = [h \in PulseHandles |->
                           IF h \in {sink, source} THEN "live" ELSE status[h]]
          /\ keyOf' = [h \in PulseHandles |->
                          IF h = sink THEN paMasterKey("sink")
                          ELSE IF h = source THEN paMasterKey("source") ELSE keyOf[h]]
          /\ sessionEventChan' = sessionEventChan \o events
          /\ emitted' = emitted \o events
    /\ UNCHANGED <<pulseRest, paRefresh>>

NextPulse ==
    \/ \E sinkReplied, sourceReplied \in BOOLEAN : paConnects(sinkReplied, sourceReplied)
    \/ \E r \in 1..MaxRefreshes : onPulseEvent(r)
    \/ \E r \in 1..MaxRefreshes : \E replied \in BOOLEAN : refreshSwaps(r, replied)
    \/ \E r \in 1..MaxRefreshes : refreshRemoved(r)
    \/ \E r \in 1..MaxRefreshes : refreshAdded(r)
    \/ handleSessionAdded
    \/ trackUnmapped
    \/ handleSessionRemoved
    \/ untrackUnmapped

SpecPulse == InitPulse /\ [][NextPulse]_vars

TypeOK ==
    /\ eventDriven \in BOOLEAN
    /\ status \in [Sessions -> {"unborn", "live", "released"}]
    /\ vol \in [Sessions -> Volumes]
    /\ Len(sessionEventChan) <= MaxEventChan
    /\ MapSessions(m) \subseteq Sessions
    /\ linesRead \in 0..MaxLines
    /\ sinceRefresh \in 0..minTimeBetweenSessionRefreshes

(***************************************************************************)
(* Properties                                                              *)
(*                                                                         *)
(* Every action is one critical section or one unlocked step, so in every  *)
(* state the directory's lock is free: what a state holds in m is what a   *)
(* concurrent get or getSessionCount returns.                              *)
(***************************************************************************)
\* a refresh is between its clear and the end of its getAndAddSessions
Refreshing(f) == pc[f] \in {"clear", "get", "add"}

\* the step that ends handleSliderMoveEvent's pass over the targets
PostStep == pc["slider"] = "post" /\ pc'["slider"] # "post"

\* how often a session occurs in a sequence of sessions
Occurrences(seq, session) == Cardinality({ i \in DOMAIN seq : seq[i] = session })

\* whether key is a plain (not deej.*) target of some slider of the mapping
PlainTarget(mapping, key) ==
    \E slider \in DOMAIN mapping : \E i \in 1..Len(mapping[slider]) :
        /\ ~targetHasSpecialTransform(ToLower(mapping[slider][i]))
        /\ ToLower(mapping[slider][i]) = key

\* master, system, mic, or a device friendly name
ReservedKey(key) ==
    \/ key \in {masterSessionName, systemSessionName, inputSessionName}
    \/ deviceSessionKeyPattern(key)

\* what a reader of the directory sees: the session count and the keys found
Observed(mm) == [count |-> getSessionCount(mm), keys |-> DOMAIN mm]

\* the map once the rest of a snapshot is added to it
RECURSIVE Repopulated(_, _)
Repopulated(mm, found) ==
    IF found = <<>> THEN mm ELSE Repopulated(add(mm, Head(found)), Tail(found))

\* C1: once the directory has handled the Removed event of a Session, the
\* key -> sessions map holds no reference to that Session, whatever refreshes
\* and events are interleaved with it.
RemovedSessionStaysOut ==
    \A s \in removedHandled : s \notin MapSessions(m)

\* C2: once the backend has released a Session, handleSliderMoveEvent is never
\* at a GetVolume or SetVolume call on it.
NoCallAfterBackendRelease ==
    (eventDriven /\ pc["slider"] = "adjust")
        => status[sessions.arr[sessions.idx]] # "released"

\* C3: while a refresh repopulates the map and nothing else writes to it, a
\* reader sees the contents from before the refresh or the complete contents
\* after it: never a cleared or partly repopulated map.
RefreshObservedAtomic ==
    \A f \in RefreshFlows :
        ( /\ ~eventDriven
          /\ pc[f] = "add"
          /\ \A g \in RefreshFlows \ {f} : ~Refreshing(g) )
        => Observed(m) \in { Observed(before[f]),
                             Observed(Repopulated(m, snapshot[f])) }

\* C4: no key of the map has an empty session list, in any reachable state.
NoEmptySessionList ==
    \A key \in DOMAIN m : m[key].len > 0

\* C4 witness: removeSession has just taken the last session of a key the
\* slider goroutine had looked up, and the key is gone while another remains.
LastSessionRemoved ==
    /\ pc["events"] = "removed"
    /\ Key(current) \notin DOMAIN m
    /\ m # EmptyMap
    /\ sessions.key = Key(current)
    /\ sessions.len = 1
    /\ sessions.arr[1] = current

\* C5: when no handler is under way, every live session of the map is in
\* unmappedSessions exactly once if sessionMapped is false for it, and not at
\* all if it is true.
UnmappedExactlyWhenNotMapped ==
    ( /\ pc["events"] = "recv"
      /\ \A f \in RefreshFlows : ~Refreshing(f)
      /\ ~reloadPending )
    => \A s \in MapSessions(m) : \A win \in WindowResults :
          status[s] = "live" =>
             Occurrences(unmappedSessions, s) =
                IF sessionMapped(s, SliderMapping, unmappedSessions, win) THEN 0 ELSE 1

\* C6: once a reload of the configuration is complete, a resolution of
\* deej.unmapped yields no key that is a plain target of a slider.
ReloadedTargetLeavesUnmapped ==
    [][ ( /\ pc["slider"] = "resolve"
          /\ pc'["slider"] # "resolve"
          /\ ToLower(Head(targets)) = DeejUnmapped
          /\ ~reloadPending
          /\ ~Refreshing("reload") )
        => \A i \in DOMAIN resolvedTargets' :
              ~PlainTarget(SliderMapping, resolvedTargets'[i]) ]_vars

\* C7: while the event of a slider whose only target is deej.unmapped is
\* handled, no GetVolume or SetVolume call is made on a session keyed master,
\* system, mic or by a device friendly name.
UnmappedSliderSparesReserved ==
    (pc["slider"] = "adjust" /\ eventTargets = <<DeejUnmapped>>)
        => ~ReservedKey(Key(sessions.arr[sessions.idx]))

\* C7 witness: such an event is at a call on a session while the map holds a
\* session under a reserved key.
UnmappedSliderAdjusts ==
    /\ pc["slider"] = "adjust"
    /\ eventTargets = <<DeejUnmapped>>
    /\ \E key \in DOMAIN m : ReservedKey(key)

\* the SetVolume calls of the history
SetVolumeCalls == SelectSeq(calls, LAMBDA call : call.set)

\* 0.50 on the firefox.exe session, then 1.00 on the master session
EndToEndExpected == << [session |-> 1, set |-> TRUE, value |-> 50],
                       [session |-> 2, set |-> TRUE, value |-> 100] >>

\* C8: the line "512|0|0|1023|0" CRLF, read first, leads to exactly two
\* SetVolume calls, 0.50 on the firefox.exe session and 1.00 on the master
\* session; sliders 1, 2 and 4 lead to none.
EndToEndCalls ==
    linesRead = 1 =>
        /\ Len(SetVolumeCalls) <= Len(EndToEndExpected)
        /\ SetVolumeCalls = SubSeq(EndToEndExpected, 1, Len(SetVolumeCalls))
        /\ (moveEvents = <<>> /\ pc["slider"] = "idle")
              => SetVolumeCalls = EndToEndExpected

\* C8 witness: the line is handled to the end and both calls are made.
EndToEndHandled ==
    /\ linesRead = 1
    /\ moveEvents = <<>>
    /\ pc["slider"] = "idle"
    /\ Len(SetVolumeCalls) = 2
    /\ lastKnownNumSliders = 5

\* C9: a pass that found no session ends, without an event-driven finder, in one
\* refreshSessions(false), which runs exactly when the cooldown is over; with
\* one, in no refresh, and the directory is as it was.
NotFoundRefreshRequest ==
    [][ (PostStep /\ ~targetFound)
        => IF eventDriven
           THEN /\ pc'["slider"] = "idle"
                /\ UNCHANGED <<m, unmappedSessions, sinceRefresh>>
           ELSE (pc'["slider"] = "clear")
                   <=> (sinceRefresh >= minTimeBetweenSessionRefreshes) ]_vars

\* C9 witness: with an event-driven finder and a map that is not empty, a pass
\* has found nothing, long enough after the last refresh.
NothingFoundEventDriven ==
    /\ pc["slider"] = "post"
    /\ ~targetFound
    /\ eventDriven
    /\ m # EmptyMap
    /\ sinceRefresh >= minTimeBetweenSessionRefreshes

\* C10: a pass in which a SetVolume call failed ends in a refresh that runs
\* whatever the time since the last one; a pass that found a target and in
\* which no call failed ends in no refresh.
FailureForcesRefresh ==
    [][ PostStep
        => /\ adjustmentFailed => pc'["slider"] = "clear"
           /\ (~adjustmentFailed /\ targetFound) => pc'["slider"] = "idle" ]_vars

\* C10 witness: a call has failed within the cooldown of the last refresh.
FailureWithinCooldown ==
    /\ pc["slider"] = "post"
    /\ adjustmentFailed
    /\ sinceRefresh < minTimeBetweenSessionRefreshes

\* the sessions a pass over the targets of the event finds in the directory
FoundSessions ==
    { s \in Sessions :
        \E i \in DOMAIN eventTargets :
            LET keys == resolveTarget(eventTargets[i], unmappedSessions,
                                      [err |-> TRUE, names |-> <<>>])
            IN \E k \in DOMAIN keys :
                  /\ keys[k] \in DOMAIN m
                  /\ \E j \in 1..m[keys[k]].len : m[keys[k]].arr[j] = s }

\* the SetVolume calls made on a session while the event is handled
SetVolumeCallsOn(session) ==
    SelectSeq(calls, LAMBDA call : call.set /\ call.session = session)

\* C11: at the end of a pass, every session found under the resolved targets
\* of the slider has the volume of the event or has had a SetVolume call with
\* that volume, whether or not a call on another session failed before.
FailureDoesNotAbortPass ==
    pc["slider"] = "post" =>
        \A s \in FoundSessions :
            \/ vol[s] = event.PercentValue
            \/ \E i \in DOMAIN calls :
                  /\ calls[i].session = s
                  /\ calls[i].set
                  /\ calls[i].value = event.PercentValue

\* C11 witness: a SetVolume call failed on one session, and a later call of the
\* same pass was made on another session.
CallAfterFailedCall ==
    /\ pc["slider"] = "post"
    /\ adjustmentFailed
    /\ \E i, j \in DOMAIN calls :
          /\ i < j
          /\ calls[i].set /\ calls[j].set
          /\ calls[i].session # calls[j].session
          /\ vol[calls[i].session] # event.PercentValue
          /\ vol[calls[j].session] = event.PercentValue

\* C12: while one slider move event is handled, SetVolume is invoked at most
\* once on any Session.
SetVolumeAtMostOnce ==
    \A s \in Sessions : Len(SetVolumeCallsOn(s)) <= 1

\* C13: a refreshSessions(false) made within the cooldown of the last refresh
\* enumerates nothing and leaves the directory as it was; a forced one, from a
\* failed call or a configuration reload, always runs; and every refresh that
\* runs starts the cooldown anew.
RefreshRateLimited ==
    [][ /\ (PostStep /\ ~targetFound /\ ~eventDriven
                /\ sinceRefresh < minTimeBetweenSessionRefreshes)
            => /\ pc'["slider"] = "idle"
               /\ UNCHANGED <<m, unmappedSessions, sinceRefresh, status, snapshot>>
        /\ (PostStep /\ adjustmentFailed) => pc'["slider"] = "clear"
        /\ (pc["reload"] = "idle" /\ reloadPending /\ ~reloadPending')
            => pc'["reload"] = "clear"
        /\ \A f \in RefreshFlows :
              (pc[f] = "get" /\ pc'[f] # "get") => sinceRefresh' = 0 ]_vars

\* C13 witness: without an event-driven finder, a pass found nothing in a
\* directory that holds sessions, within the cooldown of the last refresh.
NotFoundWithinCooldown ==
    /\ pc["slider"] = "post"
    /\ ~targetFound
    /\ ~eventDriven
    /\ m # EmptyMap
    /\ sinceRefresh < minTimeBetweenSessionRefreshes

\* the lines of the right format
WellFormedLines == { FormatLine(readings) : readings \in ReadingLists }

\* the readings a line of the right format carries
ReadingsOf(line) == CHOOSE readings \in ReadingLists : FormatLine(readings) = line

\* the step is a call of handleLine
HandleLineStep == linesRead' = linesRead + 1

\* C14: a line whose first value is above 1023 emits no move event and leaves
\* the slider count and the saved readings as they were, also when the line
\* has another number of values than the slider count.
FirstValueOverRangeDiscarded ==
    [][ ( /\ HandleLineStep
          /\ lastLines'[2] \in WellFormedLines
          /\ ReadingsOf(lastLines'[2])[1] > MaxRaw )
        => /\ moveEvents' = <<>>
           /\ UNCHANGED <<lastKnownNumSliders, currentSliderValues>> ]_vars

\* C15: every move event of handleLine has a PercentValue within [0, 1] and
\* a SliderID within 0 .. number of values of the line - 1.
MoveEventsInRange ==
    \A i \in DOMAIN moveEvents :
        /\ moveEvents[i].PercentValue \in 0..100
        /\ moveEvents[i].SliderID \in 0..(Len(currentSliderValues) - 1)

\* C16: the second of two successive calls of handleLine with the same line,
\* with no reload of the configuration in between, emits no move event and
\* leaves the slider count and the saved readings as they were.
RedecodeIdempotent ==
    [][ ( /\ HandleLineStep
          /\ lastLines'[2] \in WellFormedLines
          /\ lastLines'[1] = lastLines'[2] )
        => /\ moveEvents' = <<>>
           /\ UNCHANGED <<lastKnownNumSliders, currentSliderValues>> ]_vars

\* C16 witness: a line of three readings was handled twice in a row, and its
\* readings are the saved ones.
LineDecodedTwice ==
    /\ lastLines[2] \in WellFormedLines
    /\ lastLines[1] = lastLines[2]
    /\ Len(ReadingsOf(lastLines[2])) = 3
    /\ currentSliderValues = ReadingsOf(lastLines[2])
    /\ moveEvents = <<>>

\* C17: a line of N values, the first within range, handled while the slider
\* count is not N, sets the count to N and emits exactly N move events, for
\* sliders 0 to N - 1 in this order, whatever the noise reduction level and the
\* saved readings; every reading of the line is saved, and the value the
\* readings are reset to is outside the range.
CountChangeEmitsAll ==
    [][ ( /\ HandleLineStep
          /\ lastLines'[2] \in WellFormedLines
          /\ ReadingsOf(lastLines'[2])[1] <= MaxRaw
          /\ Len(ReadingsOf(lastLines'[2])) # lastKnownNumSliders )
        => /\ lastKnownNumSliders' = Len(ReadingsOf(lastLines'[2]))
           /\ currentSliderValues' = ReadingsOf(lastLines'[2])
           /\ Len(moveEvents') = lastKnownNumSliders'
           /\ \A i \in DOMAIN moveEvents' : moveEvents'[i].SliderID = i - 1
           /\ ResetSentinel \notin 0..MaxRaw ]_vars

\* C17 witness: a line of two values was handled right after a line of three
\* values, and both move events are still to deliver.
CountChanged ==
    /\ lastLines[1] \in WellFormedLines
    /\ lastLines[2] \in WellFormedLines
    /\ Len(ReadingsOf(lastLines[1])) = 3
    /\ ReadingsOf(lastLines[1])[1] <= MaxRaw
    /\ Len(ReadingsOf(lastLines[2])) = 2
    /\ ReadingsOf(lastLines[2])[1] <= MaxRaw
    /\ Len(moveEvents) = 2
    /\ lastKnownNumSliders = 2

\* C18: a line that does not match the line pattern emits no move event and
\* leaves the slider count and the saved readings as they were.
MalformedLineDiscarded ==
    [][ (HandleLineStep /\ lastLines'[2] \in MalformedLines)
        => /\ moveEvents' = <<>>
           /\ UNCHANGED <<lastKnownNumSliders, currentSliderValues>> ]_vars

\* C18 witness: a line the pattern rejects was handled after a line that set
\* the slider count.
MalformedAfterWellFormed ==
    /\ lastLines[1] \in WellFormedLines
    /\ lastLines[2] \in MalformedLines
    /\ lastKnownNumSliders > 0
    /\ moveEvents = <<>>

\* a reading of the range within the edge margin of one of its ends, or not
NearEdgeReading(r) ==
    r \in 0..MaxRaw /\ (r <= EdgeMargin \/ r >= MaxRaw - EdgeMargin)
NonEdgeReading(r) ==
    r \in 0..MaxRaw /\ ~NearEdgeReading(r)

\* a line of the right format that carries one reading
OneReading(line) == line \in WellFormedLines /\ Len(ReadingsOf(line)) = 1

IsPrefix(prefix, seq) ==
    /\ Len(prefix) <= Len(seq)
    /\ SubSeq(seq, 1, Len(prefix)) = prefix

\* C21: of the move events of a line, every subscriber receives each one once
\* and in the order of the slider indices, a subscriber receives none before
\* the subscribers registered ahead of it have received all, and no line is
\* read before every subscriber has received all events of the line before
FanOutDelivery ==
    [][ LET n == Len(sliderMoveConsumers)
        IN /\ linesRead' # linesRead =>
                 \A i \in 1..n : received[sliderMoveConsumers[i]] = lineEvents
           /\ \A i \in 1..n : IsPrefix(received'[sliderMoveConsumers[i]], lineEvents')
           /\ \A i, j \in 1..n :
                 (i < j /\ received'[sliderMoveConsumers[j]] # <<>>) =>
                    received'[sliderMoveConsumers[i]] = lineEvents'
           /\ \A k \in 1..(Len(lineEvents') - 1) :
                 lineEvents'[k].SliderID < lineEvents'[k + 1].SliderID ]_vars

\* the sessionMap and the tray have both received all events, two at least, of
\* the second line
SecondLineAfterFanOut ==
    /\ sliderMoveConsumers = <<"sessionMap", "tray">>
    /\ linesRead = 2
    /\ Len(lineEvents) >= 2
    /\ received["tray"] = lineEvents
    /\ received["sessionMap"] = lineEvents
\* the events emitted for the same SessionID before the i-th emitted event
EarlierOfSameID(i) ==
    { j \in 1..(i - 1) : emitted[j].SessionID = emitted[i].SessionID }

\* C22: for every SessionID the events the backend emits alternate, Added
\* first: a Removed event follows an Added event of the ID that no Removed
\* event has followed yet, and an Added event follows no event of the ID or
\* a Removed one
EmittedEventsAlternate ==
    \A i \in 1..Len(emitted) :
        IF EarlierOfSameID(i) = {}
        THEN emitted[i].Type = "Added"
        ELSE LET last == CHOOSE j \in EarlierOfSameID(i) :
                            \A k \in EarlierOfSameID(i) : k <= j
             IN emitted[i].Type # emitted[last].Type
\* C23: emitting a session event never blocks the flow of the backend's
\* callbacks: a callback can run with the event channel full, and of the
\* events a step emits the channel takes, in the order of emission, those it
\* has room for, the others being dropped
EmitNeverBlocks ==
    [][ /\ \A d \in Devices :
              (/\ CallbacksArrive
               /\ <<d, "firefox.exe">> \in DOMAIN trackedSessions
               /\ Len(emitted) < MaxEmitted) => ENABLED wcaRemoveSession(<<d, "firefox.exe">>)
        /\ Len(emitted') > Len(emitted) =>
              LET new == SubSeq(emitted', Len(emitted) + 1, Len(emitted'))
                  room == MaxEventChan - Len(sessionEventChan)
              IN sessionEventChan' =
                    sessionEventChan \o SubSeq(new, 1, IF Len(new) < room THEN Len(new) ELSE room)
      ]_vars

\* the event channel is full and the event emitted last is not in it: it
\* was dropped
EventDropped ==
    /\ Len(sessionEventChan) = MaxEventChan
    /\ emitted # <<>>
    /\ \A i \in 1..Len(sessionEventChan) : sessionEventChan[i] # emitted[Len(emitted)]
\* C25: the list of sessions a routing pass iterates is a snapshot taken by
\* the lookup: while the pass stands at a session of the list, a step of
\* another flow, such as the removal or the addition of a session, changes
\* neither the length of the list nor its elements
IteratedListIsSnapshot ==
    [][ (/\ pc["slider"] = "adjust"
         /\ pc'["slider"] = "adjust"
         /\ sessions'.idx = sessions.idx)
        => Elems(sessions') = Elems(sessions) ]_vars
\* the pass over the sessions of one resolved target ends
PassEnds == pc["slider"] = "adjust" /\ sessions' = NoSlice

\* C35: once the sessions of a resolved target have been gone through and
\* every SetVolume succeeded, every session that get returned for the target
\* has the value of the event as its volume
FoundSessionsFollowSlider ==
    [][ (PassEnds /\ ~adjustmentFailed')
        => \A i \in DOMAIN sessions.got :
              vol'[sessions.got[i]] = event.PercentValue ]_vars

\* every session the pass did call has the value of the event as its
\* volume when the handling of the event ends
CalledSessionsFollowSlider ==
    [][ (PostStep /\ ~adjustmentFailed)
        => \A i \in DOMAIN calls :
              vol[calls[i].session] = event.PercentValue ]_vars

\* volumes change through the routing pass alone, and to the value of the
\* event being handled
VolumesChangeByPass ==
    [][ \A s \in Sessions :
           vol'[s] # vol[s]
              => /\ pc["slider"] = "adjust"
                 /\ s = sessions.arr[sessions.idx]
                 /\ vol'[s] = event.PercentValue ]_vars

\* C24: every read and every write of the map and of the side table of
\* unmapped sessions is made while holding the lock of the sessionMap
AccessesHoldLock ==
    \A f \in Flows : lockUse[f].unlocked = {}

\* C26: no method of a Session that can block on the audio backend is called
\* while the lock of the sessionMap is held, in polling mode as in
\* event-driven mode
NoSessionCallUnderLock ==
    \A f \in Flows : lockUse[f].held = {}
\* C27: once the stop signal is raised, every loop of the engine that is
\* still running returns in the end: managerLoop, readLoop, the loop of
\* the slider moves, the loop of the session events and the loops of the
\* configuration reloads
StoppedLoopsReturn ==
    (stopChannel = "closed") ~> (\A l \in Loops : loops[l] # "running")

\* the loops of the serial link do return once the stop signal is raised
SerialLoopsReturn ==
    (stopChannel = "closed")
        ~> (loops["manager"] # "running" /\ loops["reader"] # "running")
\* C28: when the engine is torn down, every Session that was live when
\* the finder's Release was called, the master output and the master input
\* among them, has had Release called on it exactly once when the cleanup
\* is over, and no handle of the backend, the device enumerator included,
\* is released twice
TeardownReleasesOnce ==
    /\ worker = "cleaned" => \A h \in liveAtRelease : releaseCalls[h] = 1
    /\ \A h \in Handles : releaseCalls[h] <= 1
    /\ enumeratorReleases <= 1

\* the Sessions of the devices and of the processes are released once by
\* the cleanup, and no Session is ever released twice
TeardownReleasesTracked ==
    /\ worker = "cleaned" =>
          \A h \in liveAtRelease \ { master[id] : id \in MasterIDs } : releaseCalls[h] = 1
    /\ \A h \in Handles : releaseCalls[h] <= 1

\* the device enumerator is released by Release and again by the cleanup
EnumeratorReleasedOnce == enumeratorReleases <= 1

\* a master session that was live at Release is not released by the cleanup
MastersReleasedAtTeardown ==
    worker = "cleaned" => \A id \in MasterIDs : master[id] = 0
\* C29: when the audio backend could not be initialized, the core is not
\* started: the engine stays as NewDeej left it, no routing loop runs and
\* the serial link is not started
BackendFailureStopsCore ==
    worker = "failed" =>
        /\ engine = "created"
        /\ \A l \in {"manager", "reader", "slider", "events"} : loops[l] = "unstarted"
\* C30: whenever sessionMapped goes through the targets of the
\* configuration, every target that its prefix test does not skip resolves
\* to exactly one key, the target in lower case, whatever its letter case
\* is, and the read of the first resolved key does not panic
NonSpecialTargetResolvesToOneKey ==
    [][ ( /\ pc["events"] = "added"
          /\ pc'["events"] # "added"
          /\ ~ReservedKey(Key(current)) )
        => /\ pc'["events"] # "panic"
           /\ \A slider \in DOMAIN SliderMapping :
              \A i \in 1..Len(SliderMapping[slider]) : \A win \in WindowResults :
                 ~targetHasSpecialTransform(SliderMapping[slider][i])
                    => resolveTarget(SliderMapping[slider][i], unmappedSessions, win)
                          = << ToLower(SliderMapping[slider][i]) >> ]_vars

\* sessionMapped does not panic under a configuration whose special targets
\* are written in lower case
LowerCaseSpecialsNeverPanic ==
    (\A slider \in DOMAIN SliderMapping : \A i \in 1..Len(SliderMapping[slider]) :
        targetHasSpecialTransform(ToLower(SliderMapping[slider][i]))
           => targetHasSpecialTransform(SliderMapping[slider][i]))
    => pc["events"] # "panic"
\* C31: a resolution of deej.current.fullscreen made while the foreground
\* window is not fullscreen yields no key, whatever earlier resolutions of
\* deej.current and deej.current.fullscreen returned and however recent
\* they are
FullscreenTargetNeedsFullscreen ==
    [][ ( /\ pc["slider"] = "resolve"
          /\ targets' # targets
          /\ ToLower(Head(targets)) = DeejCurrentFullscreen
          /\ ~foreground.fullscreen )
        => resolvedTargets' = <<>> ]_vars

\* outside the cooldown the fullscreen test is made, and no key is yielded
\* for a foreground window that is not fullscreen
FullscreenTestedOutsideCooldown ==
    [][ ( /\ pc["slider"] = "resolve"
          /\ targets' # targets
          /\ ToLower(Head(targets)) = DeejCurrentFullscreen
          /\ ~foreground.fullscreen
          /\ ~windowCooldown )
        => resolvedTargets' = <<>> ]_vars
\* the sessions the directory holds, in the map or in the side table
InDirectory == MapSessions(m) \cup { unmappedSessions[i] : i \in DOMAIN unmappedSessions }

\* C32: the handling of a Removed event whose Session is not in the
\* directory, a Session it never added or no Session at all, changes
\* neither the map nor the side table of unmapped sessions, and does not
\* panic
RemovedOfAbsentIsNoOp ==
    [][ /\ ( /\ pc["events"] = "recv"
             /\ pc'["events"] # "recv"
             /\ Head(sessionEventChan).Type = "Removed"
             /\ Head(sessionEventChan).Session \notin InDirectory )
           => /\ pc'["events"] # "panic"
              /\ m' = m
              /\ unmappedSessions' = unmappedSessions
        /\ ( /\ pc["events"] = "removed"
             /\ pc'["events"] # "removed"
             /\ current \notin InDirectory )
           => /\ pc'["events"] # "panic"
              /\ m' = m
              /\ unmappedSessions' = unmappedSessions ]_vars

\* the handling of a Removed event whose Session is not nil and not in the
\* directory changes neither the map nor the side table
RemovedOfUnknownIsNoOp ==
    [][ /\ ( /\ pc["events"] = "recv"
             /\ pc'["events"] # "recv"
             /\ Head(sessionEventChan).Type = "Removed"
             /\ Head(sessionEventChan).Session # NoSession
             /\ Head(sessionEventChan).Session \notin InDirectory )
           => /\ pc'["events"] = "removed"
              /\ m' = m
              /\ unmappedSessions' = unmappedSessions
        /\ ( /\ pc["events"] = "removed"
             /\ pc'["events"] # "removed"
             /\ current \notin InDirectory )
           => /\ pc'["events"] = "recv"
              /\ m' = m
              /\ unmappedSessions' = unmappedSessions ]_vars

\* a Removed event of a Session that the directory never added is handled
UnknownRemovedHandled ==
    /\ pc["events"] = "removed"
    /\ current \notin removedHandled
    /\ current \notin InDirectory
    /\ status[current] = "released"
\* a line that handleLine decodes: of the right format, the first value
\* within range
ValidLine(line) == line \in WellFormedLines /\ ReadingsOf(line)[1] <= MaxRaw

\* lines were decoded, then the configuration was reloaded and the slider
\* count unset, and since then no line was handled, or one that is not valid
ReloadProcessed ==
    /\ ~unsetPending
    /\ lastLines[1] = <<>>
    /\ \/ lastLines[2] = <<>> /\ linesRead >= 1
       \/ lastLines[2] # <<>> /\ ~ValidLine(lastLines[2]) /\ linesRead >= 2

\* C33: once the SerialIO has unset its slider count after a reload of the
\* configuration, the next valid line yields a move event for every slider
\* of the line, in the order of the sliders, whatever readings were saved
\* before the reload and whatever the noise reduction level is
ReloadReemitsAll ==
    [][ ( /\ HandleLineStep
          /\ ReloadProcessed
          /\ ValidLine(lastLines'[2]) )
        => /\ Len(moveEvents') = Len(ReadingsOf(lastLines'[2]))
           /\ \A i \in DOMAIN moveEvents' : moveEvents'[i].SliderID = i - 1 ]_vars

\* C33 witness: a line was handled, the configuration reloaded and the
\* slider count unset, and then a valid line of two readings was handled,
\* whose two move events are still to deliver
SameLineAfterReload ==
    /\ ~unsetPending
    /\ linesRead = 2
    /\ lastLines[1] = <<>>
    /\ ValidLine(lastLines[2])
    /\ currentSliderValues = <<500, 503>>
    /\ ReadingsOf(lastLines[2]) = <<500, 503>>
    /\ Len(moveEvents) = 2
\* how often a session occurs in the lists of the map
MapOccurrences(mm, session) ==
    Cardinality({ p \in UNION { {k} \X (1..mm[k].len) : k \in DOMAIN mm } :
                     mm[p[1]].arr[p[2]] = session })

\* C34: no Session occurs twice in the directory, neither in the lists of
\* the map nor in the side table of unmapped sessions, however the handling
\* of Added events interleaves with a refresh that adds the sessions the
\* finder returns
NoSessionTwice ==
    \A s \in Sessions :
        /\ MapOccurrences(m, s) <= 1
        /\ Occurrences(unmappedSessions, s) <= 1

\* a step in which managerLoop receives an error from errChannel
ErrorReceived == Len(errChannelBuf') < Len(errChannelBuf)

\* C36: a read error that managerLoop receives was sent by the readLoop of
\* the connection that is current; an error of an earlier connection never
\* ends a later one
ReadErrorOfCurrentConnection ==
    [][ ErrorReceived => Head(errChannelBuf) = sioPort ]_vars

\* until the link is stopped for the first time, the errors received are
\* those of the current connection
ReadErrorOfCurrentUntilStop ==
    [][ (ErrorReceived /\ \A c \in DOMAIN stopChannels : stopChannels[c] = "open")
        => Head(errChannelBuf) = sioPort ]_vars

\* C37: whenever managerLoop calls connect no port is held, so that the
\* call is never refused as "connection already active"
ConnectFindsNoPort ==
    [][ \A i \in DOMAIN managerLoops :
           (managerLoops[i] = "connect" /\ managerLoops'[i] # "connect")
              => sioPort = 0 ]_vars

\* C38: the stop channel is closed once at most per Start and after a
\* Start only: no close of a nil channel or of a closed one, however the
\* restart on a reload and the shutdown of the engine interleave
StopChannelClosedOnce == ~closePanic

\* a close of the stop channel before the first Start
NilStopChannelClosed == closePanic /\ stopChannels = <<>>

\* a second close of a stop channel
StopChannelClosedTwice == closePanic /\ stopChannels # <<>>

\* the notifications alternate, the first being true
Alternates(log) == \A n \in DOMAIN log : log[n] = (n % 2 = 1)

\* the state last sent to the consumers, disconnected when none was
LastNotified == IF notified = <<>> THEN FALSE ELSE notified[Len(notified)]

\* no managerLoop stands between a change of port and the notification of it
LinkQuiescent ==
    \A i \in DOMAIN managerLoops :
        managerLoops[i] \notin {"connected", "closedOnError", "closedOnStop"}

\* C39: the state change notifications alternate between connected and
\* disconnected, beginning with connected, and whenever the link is
\* quiescent the last one is what GetState returns
NotificationsAlternate ==
    /\ Alternates(notified)
    /\ LinkQuiescent => LastNotified = (sioPort # 0)

\* the managerLoops that have begun and not returned
RunningManagers ==
    { i \in DOMAIN managerLoops : managerLoops[i] \notin {"spawned", "returned"} }

\* the notifications alternate and the last one is what GetState returns,
\* or its opposite while a managerLoop has changed port and not yet sent
\* the notification
NotifiedInStep ==
    /\ Alternates(notified)
    /\ LastNotified = ((sioPort # 0) = LinkQuiescent)

\* while a single managerLoop runs, its steps keep the notifications in
\* step with the port
OneLoopNotifiesInStep ==
    [][ ( /\ Cardinality(RunningManagers) <= 1
          /\ Cardinality(RunningManagers') <= 1
          /\ NotifiedInStep )
        => NotifiedInStep' ]_vars

\* the link has connected, lost the connection to a read error and
\* connected again, and the notifications were sent
Reconnected ==
    /\ notified = <<TRUE, FALSE, TRUE>>
    /\ LinkQuiescent
    /\ sioPort = 2

\* how often the session finder has announced the session with an event
\* of the type
Announced(type, session) ==
    Cardinality({ n \in DOMAIN emitted :
                    emitted[n] = [Type |-> type, Session |-> session] })

\* no refreshMaster is under way, and the sessionMap has handled every event
PulseQuiescent ==
    /\ \A r \in DOMAIN paRefresh : paRefresh[r].pc \in {"idle", "done"}
    /\ sessionEventChan = <<>>
    /\ pc["events"] = "recv"

\* the sessions the map holds under the key
SessionsUnder(key) == IF key \in DOMAIN m THEN Elems(m[key]) ELSE <<>>

\* C40: however many refreshes of the master sessions of PulseAudio run
\* together, every master session created is announced by one Added event
\* and every one replaced by one Removed event, so that the map, once it
\* has handled every event, holds under master and under mic the one
\* session the session finder holds, and no other
PulseMastersAnnouncedOnce ==
    /\ \A h \in PulseHandles :
          /\ Announced("Added", h) <= 1
          /\ Announced("Removed", h) <= 1
    /\ PulseQuiescent =>
          /\ \A h \in PulseHandles :
                /\ status[h] # "unborn" => Announced("Added", h) = 1
                /\ status[h] = "released" => Announced("Removed", h) = 1
          /\ \A i \in DOMAIN Masters :
                SessionsUnder(paMasterKey(Masters[i])) =
                   IF paFinder[Masters[i]] = 0 THEN <<>> ELSE <<paFinder[Masters[i]]>>

\* with one refresh of the masters at a time, it is so
PulseMastersAnnouncedOnceAlone ==
    (\A r \in DOMAIN paRefresh : r > 1 => paRefresh[r].pc = "idle")
        => PulseMastersAnnouncedOnce

\* one refresh of the masters is over and the map has handled its events
PulseRefreshedAlone ==
    /\ PulseQuiescent
    /\ paRefresh[1].pc = "done"
    /\ \A r \in DOMAIN paRefresh : r > 1 => paRefresh[r].pc = "idle"
    /\ paFinder.sink = 3
    /\ paFinder.source = 4
====
